---- MODULE Spec2Model ----
(***************************************************************************)
(* The push-to-talk session coordinator of ptt-backend                     *)
(* (src/ptt-backend/src/services/websocket.js, class WebSocketService)     *)
(* together with the part of statsService it calls.                        *)
(*                                                                         *)
(* One action per 'connection' event, per inbound message kind, per        *)
(* 'close' event and for the shutdown timer.  Node runs every handler to   *)
(* completion, so each handler is one atomic step.  A handler is written   *)
(* as an operator from a state record to a state record, so that a handler *)
(* calling another handler (grantMic, broadcastRequestQueue, ...) is the   *)
(* composition of the operators.                                           *)
(***************************************************************************)
EXTENDS Integers, Sequences, FiniteSets, TLC

\* Number of WebSocket objects that can exist at the same time.  An object
\* whose 'close' event has been handled is referenced nowhere and its
\* identifier is used again for a later socket.
MaxConn == 2

\* The same, for the specification of the queue scenarios (SpecQ).
MaxConnQ == 3

Conns == 1..(IF MaxConn > MaxConnQ THEN MaxConn ELSE MaxConnQ)

\* Number of identities that are banned at the same time: the host sends no
\* admin-kick-user while that many are banned.
MaxBanned == 1

\* The JavaScript null of speaker, hostWs and ws.user.
Null == 0
NoUser == "null"

\* Verified identities (authentication.js): two students and two lecturers,
\* told apart by the domain of their e-mail address.
Students == {"s1", "s2"}
Lecturers == {"l1", "l2"}
AllUids == Students \cup Lecturers

\* The identities that connect, and that admin messages name, in Spec: a student
\* and a lecturer.
Uids == {"s1", "l1"}

\* user.email's domain for each identity.
EmailDomain(u) == IF u \in Lecturers THEN "@um.edu.my" ELSE "@siswa.um.edu.my"

\* websocket.js:111 -- email.endsWith('@um.edu.my') || email.endsWith('@gmail.com').
\* '...@siswa.um.edu.my' does not end with '@um.edu.my'.
isLecturer(u) == EmailDomain(u) \in {"@um.edu.my", "@gmail.com"}

VARIABLES
  readyState,       \* ws.readyState of every socket: FREE (no such socket), OPEN, CLOSING
  user,             \* ws.user
  clients,          \* keys of this.clients (Map<ws, uid>; the value is user[ws].uid)
  speaker,          \* this.speaker
  requestQueue,     \* this.requestQueue
  hostWs,           \* this.hostWs
  isSessionActive,  \* this.isSessionActive
  bannedUids,       \* keys of this.bannedUids
  lastSpeakTimeMap, \* this.lastSpeakTimeMap: the uids whose entry was set to Date.now() by the last step
  shutdownTimer,    \* this.shutdownTimer is pending
  pendingTimers,    \* the number of timeouts set with setTimeout and neither cleared nor run
  exited,           \* process.exit(0) was called
  statsCurrent,     \* statsService.currentSessionId is not null
  statsRec,         \* the last record of statsService.db.sessions
  sent,             \* the messages written to sockets by the last step, in order
  threw,            \* the handler of the last step ended by an uncaught exception
  logged,           \* the statsService calls that recorded something in the last step, in order
  last              \* the event the last step handled: its kind, its socket, and what the
                    \* handler read of it (user.uid of a 'connection', payload.uid or
                    \* payload.active of an admin message, payload.targetUid of a
                    \* signaling message, this.shutdownTimer for register-as-host)

\* The WebRTC module of one browser page (the signaling handler of the client).
VARIABLES
  isHostMode,       \* isHostMode
  peers,            \* peers: the peer connection stored under each key, or NoPc
  pcs,              \* the RTCPeerConnection objects created so far
  iceQueues,        \* iceQueues: the array stored under each key; <<>> is no entry
  handlers,         \* the invocations of async functions suspended at an await
  arrived           \* the candidates handled since the last closeAllConnections,
                    \* with the key they were handled under and what was done

vars == <<readyState, user, clients, speaker, requestQueue, hostWs, isSessionActive,
          bannedUids, lastSpeakTimeMap, shutdownTimer, pendingTimers, exited,
          statsCurrent, statsRec,
          sent, threw, logged, last,
          isHostMode, peers, pcs, iceQueues, handlers, arrived>>

serverVars == <<readyState, user, clients, speaker, requestQueue, hostWs, isSessionActive,
                bannedUids, lastSpeakTimeMap, shutdownTimer, pendingTimers, exited,
                statsCurrent, statsRec,
                sent, threw, logged, last>>

rtcVars == <<isHostMode, peers, pcs, iceQueues, handlers, arrived>>

NoRec == [lecturerId |-> NoUser, ended |-> FALSE, users |-> {}]

\* The state as a record, at the start of a handler: the logs of the step are
\* empty.  The code never reads lastSpeakTimeMap, so of that map only the entries
\* the step writes are kept.
Cur ==
  [readyState |-> readyState, user |-> user, clients |-> clients, speaker |-> speaker,
   requestQueue |-> requestQueue, hostWs |-> hostWs, isSessionActive |-> isSessionActive,
   bannedUids |-> bannedUids,
   lastSpeakTimeMap |-> {},
   shutdownTimer |-> shutdownTimer, pendingTimers |-> pendingTimers, exited |-> exited,
   statsCurrent |-> statsCurrent, statsRec |-> statsRec,
   sent |-> <<>>, threw |-> FALSE, logged |-> <<>>]

\* The state a handler ends in.
Commit(s, op, ws, arg) ==
  /\ readyState' = s.readyState
  /\ user' = s.user
  /\ clients' = s.clients
  /\ speaker' = s.speaker
  /\ requestQueue' = s.requestQueue
  /\ hostWs' = s.hostWs
  /\ isSessionActive' = s.isSessionActive
  /\ bannedUids' = s.bannedUids
  /\ lastSpeakTimeMap' = s.lastSpeakTimeMap
  /\ shutdownTimer' = s.shutdownTimer
  /\ pendingTimers' = s.pendingTimers
  /\ exited' = s.exited
  /\ statsCurrent' = s.statsCurrent
  /\ statsRec' = s.statsRec
  /\ sent' = s.sent
  /\ threw' = s.threw
  /\ logged' = s.logged
  /\ last' = [op |-> op, ws |-> ws, arg |-> arg]
  /\ UNCHANGED rtcVars

(***************************************************************************)
(* Helpers on sequences                                                    *)
(***************************************************************************)
Range(q) == {q[i] : i \in DOMAIN q}

\* Array.prototype.filter
RECURSIVE filter(_, _)
filter(q, keep) ==
  IF q = <<>> THEN <<>>
  ELSE IF Head(q) \in keep THEN <<Head(q)>> \o filter(Tail(q), keep)
       ELSE filter(Tail(q), keep)

\* Array.prototype.map(ws => ws.user.uid ...)
uidsOf(s, q) == [i \in DOMAIN q |-> s.user[q[i]]]

(***************************************************************************)
(* statsService                                                            *)
(***************************************************************************)
\* Variant of startOrResumeSession that always starts a new record.
startOrResumeSession_AlwaysNew(s, lecturerId, recent) ==
  [s EXCEPT !.statsRec = [lecturerId |-> lecturerId, ended |-> FALSE, users |-> {}],
            !.statsCurrent = TRUE,
            !.logged = Append(@, <<"START", lecturerId>>)]

\* startOrResumeSession(lecturerId); recent: the last record was closed less
\* than 10 s ago.
startOrResumeSession(s, lecturerId, recent) ==
  IF /\ s.statsRec.lecturerId # NoUser
     /\ s.statsRec.lecturerId = lecturerId
     /\ (s.statsRec.ended => recent)
  THEN [s EXCEPT !.statsRec.ended = FALSE,
                 !.statsCurrent = TRUE,
                 !.logged = Append(@, <<"RESUME", lecturerId>>)]
  ELSE [s EXCEPT !.statsRec = [lecturerId |-> lecturerId, ended |-> FALSE, users |-> {}],
                 !.statsCurrent = TRUE,
                 !.logged = Append(@, <<"START", lecturerId>>)]

endSession(s) ==
  IF ~s.statsCurrent THEN s
  ELSE [s EXCEPT !.statsRec.ended = TRUE,
                 !.statsCurrent = FALSE,
                 !.logged = Append(@, <<"END", s.statsRec.lecturerId>>)]

addUser(s, u) ==
  IF ~s.statsCurrent THEN s
  ELSE [s EXCEPT !.statsRec.users = @ \cup {u},
                 !.logged = Append(@, <<"JOIN", u>>)]

logEvent(s, type, u) ==
  IF ~s.statsCurrent THEN s
  ELSE [s EXCEPT !.logged = Append(@, <<type, u>>)]

(***************************************************************************)
(* send, broadcast and the view projections                                *)
(***************************************************************************)
\* A written message: the sockets it was written to, its type and its payload.
Msg(to, type, payload) == [to |-> to, type |-> type, payload |-> payload]

send(s, ws, type, payload) ==
  IF ws # Null /\ s.readyState[ws] = "OPEN"
  THEN [s EXCEPT !.sent = Append(@, Msg({ws}, type, payload))]
  ELSE s

\* wss.clients holds every socket of the server; only the OPEN ones are written to.
broadcast(s, type, payload) ==
  LET open == {c \in Conns : s.readyState[c] = "OPEN"}
  IN IF open = {} THEN s
     ELSE [s EXCEPT !.sent = Append(@, Msg(open, type, payload))]

speakerInfo(s) == IF s.speaker # Null THEN s.user[s.speaker] ELSE NoUser

broadcastSpeakerUpdate(s) == broadcast(s, "system-speaker-update", speakerInfo(s))

participants(s) == {s.user[c] : c \in {d \in s.clients : s.user[d] # NoUser /\ d # s.hostWs}}

broadcastParticipantList(s) ==
  IF s.hostWs = Null THEN s
  ELSE send(s, s.hostWs, "system-participant-list", participants(s))

broadcastRequestQueue(s) ==
  IF s.hostWs = Null THEN s
  ELSE send(s, s.hostWs, "system-request-queue", uidsOf(s, s.requestQueue))

broadcastBannedList(s) ==
  IF s.hostWs = Null THEN s
  ELSE send(s, s.hostWs, "system-banned-list", s.bannedUids)

\* The sockets findClientByUid can return: in this.clients, with this uid, OPEN.
openClientsOf(s, uid) ==
  {c \in s.clients : s.user[c] = uid /\ s.readyState[c] = "OPEN"}

\* The first match in the Map's order; OneOpenClientPerUid shows there is at most one.
findClientByUid(s, uid) ==
  IF openClientsOf(s, uid) = {} THEN Null
  ELSE CHOOSE c \in openClientsOf(s, uid) : TRUE

\* ws.close(): the socket is CLOSING until its 'close' event is handled.
close(s, ws) ==
  IF s.readyState[ws] = "OPEN" THEN [s EXCEPT !.readyState[ws] = "CLOSING"] ELSE s

(***************************************************************************)
(* handleDisconnect                                                        *)
(***************************************************************************)
\* if (this.shutdownTimer) clearTimeout(this.shutdownTimer);
\* this.shutdownTimer = setTimeout(...)
armTimer(s) ==
  LET s1 == IF s.shutdownTimer THEN [s EXCEPT !.pendingTimers = @ - 1] ELSE s
  IN [s1 EXCEPT !.pendingTimers = @ + 1, !.shutdownTimer = TRUE]

\* Variant of the host's disconnect that also empties the queue.
hostGone_ClearsQueue(s, ws) ==
  IF ws # s.hostWs THEN s
  ELSE LET s1 == [s EXCEPT !.hostWs = Null, !.isSessionActive = FALSE,
                           !.requestQueue = <<>>]
           s2 == broadcast(s1, "system-session-status", FALSE)
           s3 == endSession(s2)
       IN armTimer(s3)

\* Variant of hostGone that arms no timer.
hostGone_NoTimer(s, ws) ==
  IF ws # s.hostWs THEN s
  ELSE LET s1 == [s EXCEPT !.hostWs = Null, !.isSessionActive = FALSE]
           s2 == broadcast(s1, "system-session-status", FALSE)
       IN endSession(s2)

\* Variant of hostGone that leaves the session active.
hostGone_KeepsActive(s, ws) ==
  IF ws # s.hostWs THEN s
  ELSE LET s1 == [s EXCEPT !.hostWs = Null]
           s2 == broadcast(s1, "system-session-status", s1.isSessionActive)
           s3 == endSession(s2)
       IN armTimer(s3)

hostGone(s, ws) ==
  IF ws # s.hostWs THEN s
  ELSE LET s1 == [s EXCEPT !.hostWs = Null, !.isSessionActive = FALSE]
           s2 == broadcast(s1, "system-session-status", FALSE)
           s3 == endSession(s2)
       IN armTimer(s3)

autoRelease(s, ws) ==
  IF s.speaker # ws THEN s
  ELSE broadcastSpeakerUpdate(
         [s EXCEPT !.lastSpeakTimeMap = @ \cup {s.user[ws]}, !.speaker = Null])

dequeueOnClose(s, ws) ==
  IF ws \notin Range(s.requestQueue) THEN s
  ELSE broadcastRequestQueue(
         [s EXCEPT !.requestQueue = filter(s.requestQueue, Conns \ {ws})])

\* Variant of handleDisconnect without the removal from the request queue.
handleDisconnect_KeepsQueued(s, ws) ==
  IF s.user[ws] = NoUser THEN s
  ELSE LET s1 == hostGone(s, ws)
           s2 == [s1 EXCEPT !.clients = @ \ {ws}]
           s3 == autoRelease(s2, ws)
       IN broadcastParticipantList(s3)

handleDisconnect(s, ws) ==
  IF s.user[ws] = NoUser THEN s
  ELSE LET s1 == hostGone(s, ws)
           s2 == [s1 EXCEPT !.clients = @ \ {ws}]
           s3 == autoRelease(s2, ws)
           s4 == dequeueOnClose(s3, ws)
       IN broadcastParticipantList(s4)

(***************************************************************************)
(* handleConnection                                                        *)
(***************************************************************************)
\* 2. Check for Duplicates: the found client is closed and deleted from the Map.
dropDuplicate(s, uid) ==
  LET existingClient == findClientByUid(s, uid)
  IN IF existingClient = Null THEN s
     ELSE [close(s, existingClient) EXCEPT !.clients = @ \ {existingClient}]

\* Variant of lecturerPresent that looks at the registered host only.
lecturerPresent_HostOnly(s) ==
  s.hostWs # Null /\ s.user[s.hostWs] # NoUser /\ isLecturer(s.user[s.hostWs])

\* 3. Any client of the Map with a lecturer's e-mail.
lecturerPresent(s) ==
  \E c \in s.clients : s.user[c] # NoUser /\ isLecturer(s.user[c])

\* Lines 125-158: the admission itself.
admit(s, ws, uid) ==
  LET s1 == [s EXCEPT !.user[ws] = uid, !.clients = @ \cup {ws}]
      s2 == send(s1, ws, "system-session-status", s1.isSessionActive)
      s3 == send(s2, ws, "system-welcome", uid)
      s4 == send(s3, ws, "system-speaker-update", speakerInfo(s3))
      s5 == broadcastParticipantList(s4)
      s6 == IF ws = s5.hostWs THEN broadcastRequestQueue(s5) ELSE s5
  IN IF ~isLecturer(uid) THEN addUser(s6, uid) ELSE s6

\* A rejected socket has no handlers: once closed nothing refers to it.
reject(s, ws, notice) ==
  LET s1 == send(s, ws, "system-error", notice)
  IN [s1 EXCEPT !.readyState[ws] = "FREE"]

\* Variant of handleConnection without step 1, the ban check.
handleConnection_NoBanCheck(s, ws, uid) ==
  LET s1 == dropDuplicate(s, uid)
  IN IF isLecturer(uid) /\ lecturerPresent(s1)
     THEN reject(s1, ws, "lecturer-already")
     ELSE admit(s1, ws, uid)

handleConnection(s, ws, uid) ==
  IF uid \in s.bannedUids THEN reject(s, ws, "kicked-rejoin")
  ELSE LET s1 == dropDuplicate(s, uid)
       IN IF isLecturer(uid) /\ lecturerPresent(s1)
          THEN reject(s1, ws, "lecturer-already")
          ELSE admit(s1, ws, uid)

(***************************************************************************)
(* Floor control                                                           *)
(***************************************************************************)
\* Variant of grantMic that leaves the queue as it is.
grantMic_KeepsQueued(s, ws) ==
  LET s1 == [s EXCEPT !.speaker = ws]
      s3 == send(s1, ws, "system-speak-granted", NoUser)
      s4 == logEvent(s3, "SPEAK_GRANTED", s3.user[ws])
  IN broadcastSpeakerUpdate(s4)

grantMic(s, ws) ==
  LET s1 == [s EXCEPT !.speaker = ws]
      s2 == IF ws \in Range(s1.requestQueue)
            THEN broadcastRequestQueue(
                   [s1 EXCEPT !.requestQueue = filter(s1.requestQueue, Conns \ {ws})])
            ELSE s1
      s3 == send(s2, ws, "system-speak-granted", NoUser)
      s4 == logEvent(s3, "SPEAK_GRANTED", s3.user[ws])
  IN broadcastSpeakerUpdate(s4)

\* Variant of enqueue that puts the socket at the head of the queue.
enqueue_AtHead(s, ws) ==
  IF ws \in Range(s.requestQueue) THEN s
  ELSE LET s1 == [s EXCEPT !.requestQueue = <<ws>> \o @]
           s2 == broadcastRequestQueue(s1)
       IN send(s2, ws, "system-request-acknowledged", NoUser)

enqueue(s, ws) ==
  IF ws \in Range(s.requestQueue) THEN s
  ELSE LET s1 == [s EXCEPT !.requestQueue = Append(@, ws)]
           s2 == broadcastRequestQueue(s1)
       IN send(s2, ws, "system-request-acknowledged", NoUser)

\* Variant of handleRequestToSpeak without the branch for the current speaker.
handleRequestToSpeak_NoSpeakerBranch(s, ws) ==
  IF s.hostWs = Null THEN send(s, ws, "system-error", "lecturer-disconnected")
  ELSE IF s.speaker = Null THEN grantMic(s, ws)
  ELSE LET s1 == enqueue(s, ws)
       IN IF s1.hostWs # Null
          THEN send(s1, s1.hostWs, "system-student-request", s1.user[ws])
          ELSE s1

handleRequestToSpeak(s, ws) ==
  IF s.hostWs = Null THEN send(s, ws, "system-error", "lecturer-disconnected")
  ELSE IF s.speaker = Null THEN grantMic(s, ws)
  ELSE IF s.speaker = ws
       THEN logEvent(send(s, ws, "system-speak-granted", NoUser), "SPEAK_PULSE", s.user[ws])
  ELSE LET s1 == enqueue(s, ws)
       IN IF s1.hostWs # Null
          THEN send(s1, s1.hostWs, "system-student-request", s1.user[ws])
          ELSE s1

\* case 'request-to-speak' of handleMessage
onRequestToSpeak(s, ws) ==
  IF ~s.isSessionActive THEN s
  ELSE handleRequestToSpeak(logEvent(s, "REQUEST_TO_SPEAK", s.user[ws]), ws)

\* Variant of handleCancelRequest that drops the head of the queue.
handleCancelRequest_DropsHead(s, ws) ==
  IF ws \notin Range(s.requestQueue) THEN s
  ELSE LET s1 == [s EXCEPT !.requestQueue = Tail(s.requestQueue)]
           s2 == broadcastRequestQueue(s1)
       IN send(s2, ws, "system-request-cancelled", NoUser)

handleCancelRequest(s, ws) ==
  IF ws \notin Range(s.requestQueue) THEN s
  ELSE LET s1 == [s EXCEPT !.requestQueue = filter(s.requestQueue, Conns \ {ws})]
           s2 == broadcastRequestQueue(s1)
       IN send(s2, ws, "system-request-cancelled", NoUser)

\* Variant of handleReleaseFloor that hands the floor to the head of the queue.
handleReleaseFloor_Advances(s, ws) ==
  IF s.speaker # ws THEN s
  ELSE LET s1 == [s EXCEPT !.lastSpeakTimeMap = @ \cup {s.user[ws]}]
           s2 == logEvent(s1, "FLOOR_RELEASED", s1.user[ws])
           s3 == broadcastSpeakerUpdate([s2 EXCEPT !.speaker = Null])
       IN IF s3.requestQueue # <<>> THEN grantMic(s3, Head(s3.requestQueue)) ELSE s3

handleReleaseFloor(s, ws) ==
  IF s.speaker # ws THEN s
  ELSE LET s1 == [s EXCEPT !.lastSpeakTimeMap = @ \cup {s.user[ws]}]
           s2 == logEvent(s1, "FLOOR_RELEASED", s1.user[ws])
       IN broadcastSpeakerUpdate([s2 EXCEPT !.speaker = Null])

\* Variant of handleFinishedSpeaking that gives the floor up.
handleFinishedSpeaking_Releases(s, ws) == handleReleaseFloor(s, ws)

handleFinishedSpeaking(s, ws) ==
  IF s.speaker = ws THEN logEvent(s, "SPEAK_FINISHED", s.user[ws]) ELSE s

\* case 'speaking-started' of handleMessage
onSpeakingStarted(s, ws) ==
  IF s.speaker = ws THEN logEvent(s, "SPEAK_PULSE", s.user[ws]) ELSE s

(***************************************************************************)
(* Host registration and the admin messages                                *)
(***************************************************************************)
RECURSIVE backfill(_, _)
backfill(s, cs) ==
  IF cs = {} THEN s
  ELSE LET c == CHOOSE x \in cs : TRUE
       IN backfill(addUser(s, s.user[c]), cs \ {c})

\* if (this.shutdownTimer) { clearTimeout(this.shutdownTimer); this.shutdownTimer = null; }
cancelTimer(s) ==
  IF s.shutdownTimer
  THEN [s EXCEPT !.pendingTimers = @ - 1, !.shutdownTimer = FALSE]
  ELSE s

\* Variant of the 'register-as-host' case that leaves the timer alone.
onRegisterAsHost_KeepsTimer(s, ws, recent) ==
  LET s1 == [s EXCEPT !.hostWs = ws, !.isSessionActive = TRUE]
      s2 == IF s1.user[ws] = NoUser THEN s1
            ELSE backfill(startOrResumeSession(s1, s1.user[ws], recent),
                          {c \in s1.clients : c # ws /\ s1.user[c] # NoUser
                                                /\ ~isLecturer(s1.user[c])})
      s3 == broadcast(s2, "system-session-status", TRUE)
      s4 == broadcastParticipantList(s3)
  IN broadcastRequestQueue(s4)

\* Variant of the 'register-as-host' case that starts the session with no bans.
onRegisterAsHost_ResetsBans(s, ws, recent) ==
  LET s1 == [cancelTimer(s) EXCEPT !.hostWs = ws, !.isSessionActive = TRUE,
                                   !.bannedUids = {}]
      s2 == IF s1.user[ws] = NoUser THEN s1
            ELSE backfill(startOrResumeSession(s1, s1.user[ws], recent),
                          {c \in s1.clients : c # ws /\ s1.user[c] # NoUser
                                                /\ ~isLecturer(s1.user[c])})
      s3 == broadcast(s2, "system-session-status", TRUE)
      s4 == broadcastParticipantList(s3)
  IN broadcastRequestQueue(s4)

\* case 'register-as-host' of handleMessage
onRegisterAsHost(s, ws, recent) ==
  LET s1 == [cancelTimer(s) EXCEPT !.hostWs = ws, !.isSessionActive = TRUE]
      s2 == IF s1.user[ws] = NoUser THEN s1
            ELSE backfill(startOrResumeSession(s1, s1.user[ws], recent),
                          {c \in s1.clients : c # ws /\ s1.user[c] # NoUser
                                                /\ ~isLecturer(s1.user[c])})
      s3 == broadcast(s2, "system-session-status", TRUE)
      s4 == broadcastParticipantList(s3)
  IN broadcastRequestQueue(s4)

\* Variant of handleAdminKick that bans the uid whether or not a client is found.
handleAdminKick_BansAbsent(s, targetUid) ==
  LET targetClient == findClientByUid(s, targetUid)
      s1 == [s EXCEPT !.bannedUids = @ \cup {targetUid}]
      s2 == broadcastBannedList(s1)
  IN IF targetClient = Null THEN s2
     ELSE LET s3 == send(s2, targetClient, "system-error", "kicked")
              s4 == IF s3.speaker = targetClient
                    THEN broadcastSpeakerUpdate([s3 EXCEPT !.speaker = Null])
                    ELSE s3
          IN close(s4, targetClient)

\* Variant of handleAdminKick without the clean-up of the speaker slot.
handleAdminKick_KeepsSpeaker(s, targetUid) ==
  LET targetClient == findClientByUid(s, targetUid)
      s1 == IF targetClient # Null /\ s.user[targetClient] # NoUser
            THEN [s EXCEPT !.bannedUids = @ \cup {targetUid}]
            ELSE s
      s2 == broadcastBannedList(s1)
  IN IF targetClient = Null THEN s2
     ELSE close(send(s2, targetClient, "system-error", "kicked"), targetClient)

handleAdminKick(s, targetUid) ==
  LET targetClient == findClientByUid(s, targetUid)
      s1 == IF targetClient # Null /\ s.user[targetClient] # NoUser
            THEN [s EXCEPT !.bannedUids = @ \cup {targetUid}]
            ELSE s
      s2 == broadcastBannedList(s1)
  IN IF targetClient = Null THEN s2
     ELSE LET s3 == send(s2, targetClient, "system-error", "kicked")
              s4 == IF s3.speaker = targetClient
                    THEN broadcastSpeakerUpdate([s3 EXCEPT !.speaker = Null])
                    ELSE s3
          IN close(s4, targetClient)

handleAdminRemoveRequest(s, uid) ==
  LET client == findClientByUid(s, uid)
  IN IF client # Null
     THEN LET s1 == [s EXCEPT !.requestQueue = filter(s.requestQueue, Conns \ {client})]
              s2 == broadcastRequestQueue(s1)
          IN send(s2, client, "system-request-removed", NoUser)
     ELSE broadcastRequestQueue(
            [s EXCEPT !.requestQueue =
               filter(s.requestQueue, {c \in Conns : s.user[c] # uid})])

\* case 'admin-kick-user'
onAdminKickUser(s, ws, uid) ==
  IF ws = s.hostWs THEN handleAdminKick(s, uid) ELSE s

\* case 'admin-remove-request'
onAdminRemoveRequest(s, ws, uid) ==
  IF ws = s.hostWs THEN handleAdminRemoveRequest(s, uid) ELSE s

\* Variant of the 'admin-toggle-session' case without the ws === this.hostWs test.
onAdminToggleSession_AnySender(s, ws, active) ==
  LET s1 == [s EXCEPT !.isSessionActive = active]
  IN broadcast(s1, "system-session-status", s1.isSessionActive)

\* case 'admin-toggle-session'
onAdminToggleSession(s, ws, active) ==
  IF ws = s.hostWs
  THEN LET s1 == [s EXCEPT !.isSessionActive = active]
       IN broadcast(s1, "system-session-status", s1.isSessionActive)
  ELSE s

\* case 'admin-release-floor'
\* Variant of the 'admin-release-floor' case that sets no cooldown.
onAdminReleaseFloor_NoCooldown(s, ws) ==
  IF ws = s.hostWs
  THEN broadcastSpeakerUpdate([s EXCEPT !.speaker = Null])
  ELSE s

onAdminReleaseFloor(s, ws) ==
  IF ws = s.hostWs
  THEN LET s1 == IF s.speaker # Null
                 THEN [s EXCEPT !.lastSpeakTimeMap = @ \cup {s.user[s.speaker]}]
                 ELSE s
       IN broadcastSpeakerUpdate([s1 EXCEPT !.speaker = Null])
  ELSE s

\* case 'admin-unkick-user'
onAdminUnkickUser(s, ws, uid) ==
  IF ws = s.hostWs /\ uid \in s.bannedUids
  THEN broadcastBannedList([s EXCEPT !.bannedUids = @ \ {uid}])
  ELSE s

\* Variant of the 'admin-grant-floor' case without the speaker update.
onAdminGrantFloor_NoBroadcast(s, ws, uid) ==
  LET targetClient == findClientByUid(s, uid)
  IN IF ws = s.hostWs /\ targetClient # Null
     THEN send([s EXCEPT !.speaker = targetClient], targetClient, "system-speak-granted", NoUser)
     ELSE s

\* case 'admin-grant-floor'
onAdminGrantFloor(s, ws, uid) ==
  LET targetClient == findClientByUid(s, uid)
  IN IF ws = s.hostWs /\ targetClient # Null
     THEN LET s1 == [s EXCEPT !.speaker = targetClient]
              s2 == send(s1, targetClient, "system-speak-granted", NoUser)
          IN broadcastSpeakerUpdate(s2)
     ELSE s

(***************************************************************************)
(* WebRTC signaling                                                        *)
(***************************************************************************)
\* What a relayed message carries: the part of the payload that is forwarded
\* and, on the way to the host, the 'from' field.
Relayed(body, from) == [body |-> body, from |-> from]

\* Variant of the 'webrtc-offer' case that writes the offer to every open socket.
onWebrtcOffer_Broadcasts(s, ws) ==
  IF s.hostWs # Null
  THEN broadcast(s, "webrtc-offer", Relayed("payload", s.user[ws]))
  ELSE s

\* case 'webrtc-offer': the whole payload goes to the host.
onWebrtcOffer(s, ws) ==
  IF s.hostWs # Null
  THEN send(s, s.hostWs, "webrtc-offer", Relayed("payload", s.user[ws]))
  ELSE s

\* case 'webrtc-answer'; targetUid is NoUser when the payload names no target.
onWebrtcAnswer(s, ws, targetUid) ==
  IF ws = s.hostWs /\ targetUid # NoUser
  THEN LET targetClient == findClientByUid(s, targetUid)
       IN IF targetClient # Null
          THEN send(s, targetClient, "webrtc-answer", Relayed("payload.sdp", NoUser))
          ELSE s
  ELSE s

\* case 'webrtc-ice-candidate': A. host to the named student, else B. to the host.
onWebrtcIceCandidate(s, ws, targetUid) ==
  IF ws = s.hostWs /\ targetUid # NoUser
  THEN LET targetClient == findClientByUid(s, targetUid)
       IN IF targetClient # Null
          THEN send(s, targetClient, "webrtc-ice-candidate",
                    Relayed("payload.candidate", NoUser))
          ELSE s
  ELSE IF s.hostWs # Null
  THEN send(s, s.hostWs, "webrtc-ice-candidate",
            Relayed("payload.candidate", s.user[ws]))
  ELSE s

(***************************************************************************)
(* Messages that are not well-formed                                       *)
(***************************************************************************)
\* A TypeError leaves the handler.  Nothing catches it: handleMessage has a
\* try/catch around JSON.parse only and index.js installs no handler for
\* uncaught exceptions, so the process ends.
raise(s) == [s EXCEPT !.threw = TRUE, !.exited = TRUE]

\* The message types whose admin case reads a field of payload.
AdminPayloadOps ==
  {"admin-kick-user", "admin-remove-request", "admin-toggle-session",
   "admin-unkick-user", "admin-grant-floor"}

\* Texts that do not parse to an envelope {type, payload} of a known type.
BadEnvelopes == {"not-json", "json-null", "scalar", "unknown-type"}

\* Lines 164-170: JSON.parse in try/catch, then const { type, payload } = parsed.
\* Destructuring null throws; a number, string, boolean or array has no 'type',
\* and the switch has no default case.
onBadEnvelope(s, kind) ==
  IF kind = "json-null" THEN raise(s) ELSE s

\* A message of a type that carries a payload, sent without one: payload is
\* undefined and reading a field of it throws.
onNoPayload(s, ws, type) ==
  CASE type \in AdminPayloadOps ->
         IF ws = s.hostWs THEN raise(s) ELSE s
    [] type = "webrtc-offer" ->
         IF s.hostWs # Null
         THEN send(s, s.hostWs, "webrtc-offer", Relayed("undefined", s.user[ws]))
         ELSE s
    [] type = "webrtc-answer" ->
         IF ws = s.hostWs THEN raise(s) ELSE s
    [] type = "webrtc-ice-candidate" ->
         IF ws = s.hostWs THEN raise(s)
         ELSE IF s.hostWs # Null THEN raise(s)
         ELSE s
    [] type = "latency-update" -> raise(s)

(***************************************************************************)
(* The client: webrtc signaling handler of the browser page                *)
(***************************************************************************)
\* The peer connections that can be created, and the candidates that can
\* arrive (each once).
MaxPc == 2
Cands == {"k1", "k2"}

\* peers.get(key) of a key that is not in the map
NoPc == 0

\* The uids a signal can come from, and the keys of peers and iceQueues.
FromUids == {"s1"}
Keys == {"HOST_TARGET"} \cup FromUids

\* new RTCPeerConnection(rtcConfig), before and after it is constructed
NoPcState == [made |-> FALSE, closed |-> FALSE, remoteDescription |-> FALSE, added |-> {}]
NewPcState == [made |-> TRUE, closed |-> FALSE, remoteDescription |-> FALSE, added |-> {}]

InitRtc ==
  /\ isHostMode = FALSE
  /\ peers = [k \in Keys |-> NoPc]
  /\ pcs = [n \in 1..MaxPc |-> NoPcState]
  /\ iceQueues = [k \in Keys |-> <<>>]
  /\ handlers = {}
  /\ arrived = {}

\* const pcId = isHostMode ? fromUid : "HOST_TARGET"
pcIdOf(fromUid) == IF isHostMode THEN fromUid ELSE "HOST_TARGET"

\* The next object createPeerConnection constructs.
FreshPc == CHOOSE n \in 1..MaxPc : ~pcs[n].made /\ \A i \in 1..(n - 1) : pcs[i].made

CanCreatePc == \E n \in 1..MaxPc : ~pcs[n].made

\* A suspended invocation: the function, the key and the peer connection it
\* holds, the await it is at (0: setRemoteDescription or the audio set-up;
\* i > 0: addIceCandidate of the i-th element of the array it iterates), and
\* the array it iterates: the one stored in iceQueues (live), or its elements
\* once the map no longer holds it.
Handler(type, pcId, pc, at) ==
  [type |-> type, pcId |-> pcId, pc |-> pc, at |-> at, live |-> FALSE, arr |-> <<>>]

\* What becomes of the suspended iterations over the array stored under the
\* keys ks, when the map drops it: they keep the array.
detach(hs, ks) ==
  {IF h.live /\ h.pcId \in ks THEN [h EXCEPT !.live = FALSE, !.arr = iceQueues[h.pcId]] ELSE h
     : h \in hs}

\* closeAllConnections: peers.forEach(pc => pc.close()); peers.clear();
\* iceQueues.clear()
closeAllConnections(mode, hs) ==
  /\ isHostMode' = mode
  /\ pcs' = [n \in 1..MaxPc |->
               IF \E k \in Keys : peers[k] = n THEN [pcs[n] EXCEPT !.closed = TRUE] ELSE pcs[n]]
  /\ peers' = [k \in Keys |-> NoPc]
  /\ iceQueues' = [k \in Keys |-> <<>>]
  /\ handlers' = hs
  /\ arrived' = {[a EXCEPT !.fate = "stale"] : a \in arrived}

\* initHostMode()
InitHostMode ==
  /\ closeAllConnections(TRUE, detach(handlers, Keys))
  /\ UNCHANGED serverVars

\* initStudentConnection(myUid), up to its first await (the audio set-up)
InitStudentConnection ==
  /\ closeAllConnections(FALSE, detach(handlers, Keys)
                                  \cup {Handler("initStudentConnection", "HOST_TARGET", NoPc, 0)})
  /\ UNCHANGED serverVars

\* handleWebRTCSignal("webrtc-offer", payload, fromUid), up to its first await
SignalOffer(fromUid) ==
  LET pcId == pcIdOf(fromUid)
      old == peers[pcId]
      pc == FreshPc
  IN
  /\ UNCHANGED serverVars
  /\ IF isHostMode
       THEN /\ CanCreatePc
            /\ pcs' = [n \in 1..MaxPc |->
                         IF n = pc THEN NewPcState
                         ELSE IF n = old THEN [pcs[n] EXCEPT !.closed = TRUE]
                         ELSE pcs[n]]
            /\ peers' = [peers EXCEPT ![pcId] = pc]
            /\ handlers' = handlers \cup {Handler("webrtc-offer", pcId, pc, 0)}
            /\ UNCHANGED <<isHostMode, iceQueues, arrived>>
       ELSE UNCHANGED rtcVars

\* handleWebRTCSignal("webrtc-answer", payload, fromUid), up to its await
SignalAnswer(fromUid) ==
  LET pcId == pcIdOf(fromUid)
      pc == peers[pcId]
  IN
  /\ UNCHANGED serverVars
  /\ IF pc = NoPc
       THEN UNCHANGED rtcVars
       ELSE /\ handlers' = handlers \cup {Handler("webrtc-answer", pcId, pc, 0)}
            /\ UNCHANGED <<isHostMode, peers, pcs, iceQueues, arrived>>

\* handleWebRTCSignal("webrtc-ice-candidate", payload, fromUid)
SignalCandidate(k, fromUid) ==
  LET pcId == pcIdOf(fromUid)
      pc == peers[pcId]
      Note(fate) == arrived \cup {[cand |-> k, pcId |-> pcId, fate |-> fate]}
  IN
  /\ \A a \in arrived : a.cand # k
  /\ UNCHANGED serverVars
  /\ UNCHANGED <<isHostMode, peers, handlers>>
  /\ IF pc = NoPc
       THEN /\ arrived' = Note("dropped")
            /\ UNCHANGED <<pcs, iceQueues>>
       ELSE IF pcs[pc].remoteDescription
         THEN /\ pcs' = [pcs EXCEPT ![pc].added = @ \cup {k}]
              /\ arrived' = Note("added")
              /\ UNCHANGED iceQueues
         ELSE /\ iceQueues' = [iceQueues EXCEPT ![pcId] = Append(@, k)]
              /\ arrived' = Note("queued")
              /\ UNCHANGED pcs

\* The array a suspended iteration walks.
arrayOf(h) == IF h.live THEN iceQueues[h.pcId] ELSE h.arr

\* The loop of the offer branch at element i of the array: addIceCandidate of
\* it and the await, or the end of the loop and iceQueues.delete(pcId); what
\* follows (createAnswer, setLocalDescription, the answer sent) touches
\* neither map.
loopAt(h, array, i, ps) ==
  IF i <= Len(array)
    THEN /\ pcs' = [ps EXCEPT ![h.pc].added = @ \cup {array[i]}]
         /\ handlers' = (handlers \ {h}) \cup {[h EXCEPT !.at = i, !.live = (h.at = 0 \/ h.live)]}
         /\ UNCHANGED iceQueues
    ELSE /\ iceQueues' = [iceQueues EXCEPT ![h.pcId] = <<>>]
         /\ handlers' = detach(handlers \ {h}, {h.pcId})
         /\ pcs' = ps

\* The awaited promise of a suspended invocation settles and it runs to its
\* next await or to its end.  On a closed peer connection the promise does not
\* resolve, and the invocation goes no further.
Resume(h) ==
  /\ h \in handlers
  /\ UNCHANGED serverVars
  /\ UNCHANGED <<isHostMode, arrived>>
  /\ IF h.type = "initStudentConnection"
       THEN \* const pc = createPeerConnection("HOST_TARGET"); peers.set(...)
            /\ CanCreatePc
            /\ pcs' = [pcs EXCEPT ![FreshPc] = NewPcState]
            /\ peers' = [peers EXCEPT !["HOST_TARGET"] = FreshPc]
            /\ handlers' = handlers \ {h}
            /\ UNCHANGED iceQueues
       ELSE /\ UNCHANGED peers
            /\ IF pcs[h.pc].closed
                 THEN /\ handlers' = handlers \ {h}
                      /\ UNCHANGED <<pcs, iceQueues>>
                 ELSE IF h.type = "webrtc-answer"
                   THEN /\ pcs' = [pcs EXCEPT ![h.pc].remoteDescription = TRUE]
                        /\ handlers' = handlers \ {h}
                        /\ UNCHANGED iceQueues
                   ELSE IF h.at = 0
                     THEN LET ps == [pcs EXCEPT ![h.pc].remoteDescription = TRUE]
                          IN IF iceQueues[h.pcId] # <<>>
                               THEN loopAt(h, iceQueues[h.pcId], 1, ps)
                               ELSE /\ pcs' = ps
                                    /\ handlers' = handlers \ {h}
                                    /\ UNCHANGED iceQueues
                     ELSE loopAt(h, arrayOf(h), h.at + 1, pcs)

(***************************************************************************)
(* The state machine                                                       *)
(***************************************************************************)
Init ==
  /\ readyState = [c \in Conns |-> "FREE"]
  /\ user = [c \in Conns |-> NoUser]
  /\ clients = {}
  /\ speaker = Null
  /\ requestQueue = <<>>
  /\ hostWs = Null
  /\ isSessionActive = FALSE
  /\ bannedUids = {}
  /\ lastSpeakTimeMap = {}
  /\ shutdownTimer = FALSE
  /\ pendingTimers = 0
  /\ exited = FALSE
  /\ statsCurrent = FALSE
  /\ statsRec = NoRec
  /\ sent = <<>>
  /\ threw = FALSE
  /\ logged = <<>>
  /\ last = [op |-> "init", ws |-> Null, arg |-> NoUser]
  /\ InitRtc

\* A socket whose handlers are registered and whose 'close' event is still to come:
\* it delivers messages, also after ws.close() was called on it.
Attached(ws) == readyState[ws] # "FREE" /\ user[ws] # NoUser

\* wss.on('connection'): a new socket with a verified identity.
Connect(ws, uid) ==
  /\ ~exited
  /\ readyState[ws] = "FREE"
  /\ \A c \in Conns : c < ws => readyState[c] # "FREE"
  /\ Commit(handleConnection([Cur EXCEPT !.readyState[ws] = "OPEN"], ws, uid),
            "connection", ws, uid)

\* ws.on('close'): the transport is gone, whoever closed it.
Disconnect(ws) ==
  /\ ~exited
  /\ Attached(ws)
  /\ LET s == handleDisconnect([Cur EXCEPT !.readyState[ws] = "CLOSING"], ws)
     IN Commit([s EXCEPT !.readyState[ws] = "FREE", !.user[ws] = NoUser],
               "close", ws, user[ws])

\* What the 'register-as-host' case reads of this.shutdownTimer.
timerRead == IF shutdownTimer THEN "timer" ELSE NoUser

RegisterAsHost(ws) ==
  /\ ~exited
  /\ Attached(ws)
  /\ \E recent \in (IF statsRec.ended THEN BOOLEAN ELSE {TRUE}) :
       Commit(onRegisterAsHost(Cur, ws, recent), "register-as-host", ws, timerRead)

RequestToSpeak(ws) ==
  /\ ~exited
  /\ Attached(ws)
  /\ Commit(onRequestToSpeak(Cur, ws), "request-to-speak", ws, NoUser)

CancelRequest(ws) ==
  /\ ~exited
  /\ Attached(ws)
  /\ Commit(handleCancelRequest(Cur, ws), "cancel-request", ws, NoUser)

ReleaseFloor(ws) ==
  /\ ~exited
  /\ Attached(ws)
  /\ Commit(handleReleaseFloor(Cur, ws), "release-floor", ws, NoUser)

FinishedSpeaking(ws) ==
  /\ ~exited
  /\ Attached(ws)
  /\ Commit(handleFinishedSpeaking(Cur, ws), "finished-speaking", ws, NoUser)

SpeakingStarted(ws) ==
  /\ ~exited
  /\ Attached(ws)
  /\ Commit(onSpeakingStarted(Cur, ws), "speaking-started", ws, NoUser)

\* The admin cases read the payload only inside 'if (ws === this.hostWs)'.
payloadRead(ws, x) == IF ws = hostWs THEN x ELSE NoUser

AdminKickUser(ws, uid) ==
  /\ ~exited
  /\ Attached(ws)
  /\ Cardinality(bannedUids) < MaxBanned
  /\ Commit(onAdminKickUser(Cur, ws, uid), "admin-kick-user", ws, payloadRead(ws, uid))

AdminUnkickUser(ws, uid) ==
  /\ ~exited
  /\ Attached(ws)
  /\ Commit(onAdminUnkickUser(Cur, ws, uid), "admin-unkick-user", ws, payloadRead(ws, uid))

AdminRemoveRequest(ws, uid) ==
  /\ ~exited
  /\ Attached(ws)
  /\ Commit(onAdminRemoveRequest(Cur, ws, uid), "admin-remove-request", ws, payloadRead(ws, uid))

AdminToggleSession(ws, active) ==
  /\ ~exited
  /\ Attached(ws)
  /\ Commit(onAdminToggleSession(Cur, ws, active), "admin-toggle-session", ws,
            payloadRead(ws, IF active THEN "true" ELSE "false"))

AdminReleaseFloor(ws) ==
  /\ ~exited
  /\ Attached(ws)
  /\ Commit(onAdminReleaseFloor(Cur, ws), "admin-release-floor", ws, NoUser)

AdminGrantFloor(ws, uid) ==
  /\ ~exited
  /\ Attached(ws)
  /\ Commit(onAdminGrantFloor(Cur, ws, uid), "admin-grant-floor", ws, payloadRead(ws, uid))

\* The signaling messages; targetUid is payload.targetUid, NoUser when absent.
WebrtcOffer(ws) ==
  /\ ~exited
  /\ Attached(ws)
  /\ Commit(onWebrtcOffer(Cur, ws), "webrtc-offer", ws, NoUser)

WebrtcAnswer(ws, targetUid) ==
  /\ ~exited
  /\ Attached(ws)
  /\ Commit(onWebrtcAnswer(Cur, ws, targetUid), "webrtc-answer", ws, targetUid)

WebrtcIceCandidate(ws, targetUid) ==
  /\ ~exited
  /\ Attached(ws)
  /\ Commit(onWebrtcIceCandidate(Cur, ws, targetUid), "webrtc-ice-candidate", ws, targetUid)

\* A text that is no envelope of a known type.
BadEnvelope(ws, kind) ==
  /\ ~exited
  /\ Attached(ws)
  /\ Commit(onBadEnvelope(Cur, kind), "bad-envelope", ws, kind)

\* A known type that carries a payload, without the payload.
NoPayload(ws, type) ==
  /\ ~exited
  /\ Attached(ws)
  /\ Commit(onNoPayload(Cur, ws, type), "no-payload", ws, type)

\* The callback of setTimeout(..., 10000) in handleDisconnect.
ShutdownTimerFires ==
  /\ ~exited
  /\ pendingTimers > 0
  /\ Commit([Cur EXCEPT !.shutdownTimer = FALSE, !.pendingTimers = @ - 1, !.exited = TRUE],
            "timer", Null, NoUser)

Next ==
  \/ \E ws \in 1..MaxConn, uid \in Uids : Connect(ws, uid)
  \/ \E ws \in 1..MaxConn : Disconnect(ws)
  \/ \E ws \in 1..MaxConn : RegisterAsHost(ws)
  \/ \E ws \in 1..MaxConn : RequestToSpeak(ws)
  \/ \E ws \in 1..MaxConn : CancelRequest(ws)
  \/ \E ws \in 1..MaxConn : ReleaseFloor(ws)
  \/ \E ws \in 1..MaxConn : FinishedSpeaking(ws)
  \/ \E ws \in 1..MaxConn : SpeakingStarted(ws)
  \/ \E ws \in 1..MaxConn, uid \in Uids : AdminKickUser(ws, uid)
  \/ \E ws \in 1..MaxConn, uid \in Uids : AdminUnkickUser(ws, uid)
  \/ \E ws \in 1..MaxConn, uid \in Uids : AdminRemoveRequest(ws, uid)
  \/ \E ws \in 1..MaxConn, active \in BOOLEAN : AdminToggleSession(ws, active)
  \/ \E ws \in 1..MaxConn : AdminReleaseFloor(ws)
  \/ \E ws \in 1..MaxConn, uid \in Uids : AdminGrantFloor(ws, uid)
  \/ ShutdownTimerFires

Spec == Init /\ [][Next]_vars

\* The same events with two lecturers as the identities (SpecL).
UidsL == {"l1", "l2"}

NextL ==
  \/ \E ws \in 1..MaxConn, uid \in UidsL : Connect(ws, uid)
  \/ \E ws \in 1..MaxConn : Disconnect(ws)
  \/ \E ws \in 1..MaxConn : RegisterAsHost(ws)
  \/ \E ws \in 1..MaxConn : RequestToSpeak(ws)
  \/ \E ws \in 1..MaxConn : CancelRequest(ws)
  \/ \E ws \in 1..MaxConn : ReleaseFloor(ws)
  \/ \E ws \in 1..MaxConn : FinishedSpeaking(ws)
  \/ \E ws \in 1..MaxConn : SpeakingStarted(ws)
  \/ \E ws \in 1..MaxConn, uid \in UidsL : AdminKickUser(ws, uid)
  \/ \E ws \in 1..MaxConn, uid \in UidsL : AdminUnkickUser(ws, uid)
  \/ \E ws \in 1..MaxConn, uid \in UidsL : AdminRemoveRequest(ws, uid)
  \/ \E ws \in 1..MaxConn, active \in BOOLEAN : AdminToggleSession(ws, active)
  \/ \E ws \in 1..MaxConn : AdminReleaseFloor(ws)
  \/ \E ws \in 1..MaxConn, uid \in UidsL : AdminGrantFloor(ws, uid)
  \/ ShutdownTimerFires

SpecL == Init /\ [][NextL]_vars

\* The queue scenarios: one more socket, two students and one lecturer, and
\* clients that behave as the frontend pages do: only the lecturer's page sends
\* register-as-host and admin-remove-request, the one admin message that edits
\* the queue.
UidsQ == {"s1", "s2", "l1"}

LecturerConns == {ws \in 1..MaxConnQ : user[ws] \in Lecturers}

NextQ ==
  \/ \E ws \in 1..MaxConnQ, uid \in UidsQ : Connect(ws, uid)
  \/ \E ws \in 1..MaxConnQ : Disconnect(ws)
  \/ \E ws \in LecturerConns : RegisterAsHost(ws)
  \/ \E ws \in 1..MaxConnQ : RequestToSpeak(ws)
  \/ \E ws \in 1..MaxConnQ : CancelRequest(ws)
  \/ \E ws \in 1..MaxConnQ : ReleaseFloor(ws)
  \/ \E ws \in LecturerConns, uid \in UidsQ : AdminRemoveRequest(ws, uid)

SpecQ == Init /\ [][NextQ]_vars

\* The signaling relay: connections, registrations and the three WebRTC
\* messages, with or without a target uid.
Targets == Uids \cup {NoUser}

NextW ==
  \/ \E ws \in 1..MaxConn, uid \in Uids : Connect(ws, uid)
  \/ \E ws \in 1..MaxConn : Disconnect(ws)
  \/ \E ws \in 1..MaxConn : RegisterAsHost(ws)
  \/ \E ws \in 1..MaxConn : WebrtcOffer(ws)
  \/ \E ws \in 1..MaxConn, targetUid \in Targets : WebrtcAnswer(ws, targetUid)
  \/ \E ws \in 1..MaxConn, targetUid \in Targets : WebrtcIceCandidate(ws, targetUid)
  \/ ShutdownTimerFires

SpecW == Init /\ [][NextW]_vars

\* setTimeout's callback runs once its delay has elapsed, unless clearTimeout
\* was called first.
SpecWFair == SpecW /\ WF_vars(ShutdownTimerFires)

\* Protocol errors: connections, registrations and messages that are not
\* well-formed.
PayloadOps ==
  AdminPayloadOps \cup {"webrtc-offer", "webrtc-answer", "webrtc-ice-candidate",
                        "latency-update"}

NextM ==
  \/ \E ws \in 1..MaxConn, uid \in Uids : Connect(ws, uid)
  \/ \E ws \in 1..MaxConn : Disconnect(ws)
  \/ \E ws \in 1..MaxConn : RegisterAsHost(ws)
  \/ \E ws \in 1..MaxConn, kind \in BadEnvelopes : BadEnvelope(ws, kind)
  \/ \E ws \in 1..MaxConn, type \in PayloadOps : NoPayload(ws, type)
  \/ ShutdownTimerFires

SpecM == Init /\ [][NextM]_vars

\* The browser page: mode changes, the three signals from one peer, and the
\* suspended invocations resuming in any order.
NextC ==
  \/ InitHostMode
  \/ InitStudentConnection
  \/ \E fromUid \in FromUids : SignalOffer(fromUid)
  \/ \E fromUid \in FromUids : SignalAnswer(fromUid)
  \/ \E k \in Cands, fromUid \in FromUids : SignalCandidate(k, fromUid)
  \/ \E h \in handlers : Resume(h)

SpecC == Init /\ [][NextC]_vars

(***************************************************************************)
(* What the model rests on                                                 *)
(***************************************************************************)
\* An identifier that is free is referenced by nothing, so using it again for a
\* new socket cannot be told from a new object.
FreeUnreferenced ==
  \A c \in Conns : readyState[c] = "FREE" =>
    /\ user[c] = NoUser
    /\ c \notin clients
    /\ c # speaker
    /\ c # hostWs
    /\ c \notin Range(requestQueue)

\* findClientByUid has at most one socket to return, whatever the Map's order.
OneOpenClientPerUid ==
  \A u \in AllUids : Cardinality(openClientsOf(Cur, u)) <= 1

\* currentSessionId is set exactly while the last record is open.
StatsCurrentIsOpenRecord ==
  statsCurrent <=> (statsRec.lecturerId # NoUser /\ ~statsRec.ended)

(***************************************************************************)
(* Vocabulary of the claims                                                *)
(***************************************************************************)
\* The uids of the queue's entries.
queueUids == {user[requestQueue[i]] : i \in DOMAIN requestQueue}

\* A message of this type and payload was written to exactly this socket.
WroteTo(log, ws, type, payload) ==
  \E i \in DOMAIN log :
    log[i].type = type /\ log[i].to = {ws} /\ log[i].payload = payload

\* Some system-error was written to this socket.
WroteErrorTo(log, ws) ==
  \E i \in DOMAIN log : log[i].type = "system-error" /\ ws \in log[i].to

\* Everything the coordinator keeps, the logs of the step aside.
coordinator ==
  <<readyState, user, clients, speaker, requestQueue, hostWs, isSessionActive,
    bannedUids, shutdownTimer, pendingTimers, exited, statsCurrent, statsRec>>

AdminOps ==
  {"admin-kick-user", "admin-unkick-user", "admin-remove-request",
   "admin-toggle-session", "admin-release-floor", "admin-grant-floor"}

(***************************************************************************)
(* C1                                                                      *)
(***************************************************************************)
\* C1: in every reachable state the Speaker Slot and the Request Queue are
\* disjoint: the speaker's socket is not an entry of the queue, and no entry of
\* the queue has the speaker's uid.
C1_SpeakerAndQueueDisjoint ==
  speaker # Null =>
    /\ speaker \notin Range(requestQueue)
    /\ user[speaker] \notin queueUids

(***************************************************************************)
(* C2                                                                      *)
(***************************************************************************)
\* C2: in every reachable state a banned uid is the uid of no socket of the
\* Registry, of no entry of the Request Queue and not of the speaker.
C2_BannedUidNowhere ==
  \A c \in Conns :
    (user[c] # NoUser /\ user[c] \in bannedUids) =>
      /\ c \notin clients
      /\ c # speaker
      /\ c \notin Range(requestQueue)

(***************************************************************************)
(* C3                                                                      *)
(***************************************************************************)
\* C3: in every reachable state the Request Queue holds at most one entry per
\* uid.
C3_QueueOneEntryPerUid ==
  \A i, j \in DOMAIN requestQueue :
    user[requestQueue[i]] = user[requestQueue[j]] => i = j

(***************************************************************************)
(* C4                                                                      *)
(***************************************************************************)
\* C4: in every reachable state the Registry (the clients Map) holds at most one
\* socket per uid.
C4_RegistryOneSocketPerUid ==
  \A c, d \in clients : user[c] = user[d] => c = d

(***************************************************************************)
(* C5                                                                      *)
(***************************************************************************)
\* The step is the 'connection' event of a lecturer while the Registry holds a
\* lecturer of another uid.
SecondLecturerArrives ==
  /\ last'.op = "connection"
  /\ isLecturer(last'.arg)
  /\ \E c \in clients : isLecturer(user[c]) /\ user[c] # last'.arg

\* The new socket got the 'already' notice, is closed and not registered, and
\* nothing the coordinator keeps has changed.
RejectedAsSecondLecturer ==
  /\ WroteTo(sent', last'.ws, "system-error", "lecturer-already")
  /\ readyState'[last'.ws] # "OPEN"
  /\ last'.ws \notin clients'
  /\ UNCHANGED coordinator

OneLecturerRegistered ==
  Cardinality({c \in clients : isLecturer(user[c])}) <= 1

C6_HostIsPrivileged ==
  hostWs # Null => isLecturer(user[hostWs])

(***************************************************************************)
(* C7                                                                      *)
(***************************************************************************)
\* C7: an admin-* message from a socket that is not the current host changes
\* nothing the coordinator keeps (Ban Set, Speaker Slot, Request Queue, Registry,
\* session-active flag among it), writes no message and records nothing.
C7_AdminMessagesAreHostOnly ==
  [][(last'.op \in AdminOps /\ last'.ws # hostWs) =>
       /\ UNCHANGED coordinator
       /\ sent' = <<>>
       /\ logged' = <<>>
       /\ lastSpeakTimeMap' = {}]_vars

\* A socket that is not the host has just sent an admin message while a host
\* is registered, somebody else holds the floor and an identity is banned.
C7_Witness ==
  /\ last.op \in AdminOps
  /\ last.ws # hostWs
  /\ hostWs # Null
  /\ speaker # Null
  /\ bannedUids # {}
  /\ sent = <<>>

(***************************************************************************)
(* C8                                                                      *)
(***************************************************************************)
\* C8: the 'connection' event of a banned uid writes the 'kicked' notice to the
\* new socket and nothing else, closes the new socket, and changes nothing the
\* coordinator keeps: no socket of any uid is closed or unregistered.
C8_BannedAdmissionChangesNothing ==
  [][(last'.op = "connection" /\ last'.arg \in bannedUids) =>
       /\ sent' = <<Msg({last'.ws}, "system-error", "kicked-rejoin")>>
       /\ readyState'[last'.ws] # "OPEN"
       /\ UNCHANGED coordinator
       /\ logged' = <<>>]_vars

\* A banned uid has just been turned away while other sockets are registered.
C8_Witness ==
  /\ last.op = "connection"
  /\ last.arg \in bannedUids
  /\ WroteTo(sent, last.ws, "system-error", "kicked-rejoin")
  /\ \E c \in clients : readyState[c] = "OPEN"

(***************************************************************************)
(* C9                                                                      *)
(***************************************************************************)
\* C9: right after a socket was admitted for a uid that had a live socket, the
\* old socket is closed and neither the Registry, nor the Speaker Slot, nor the
\* Request Queue refers to it.
C9_OldSocketFullyRemoved ==
  [][(last'.op = "connection" /\ last'.ws \in clients') =>
       LET old == findClientByUid(Cur, last'.arg)
       IN old # Null =>
            /\ readyState'[old] # "OPEN"
            /\ old \notin clients'
            /\ speaker' # old
            /\ old \notin Range(requestQueue')]_vars

(***************************************************************************)
(* C10                                                                     *)
(***************************************************************************)
\* C10: a request-to-speak from an open socket while the session is inactive
\* writes an error to the requester and leaves Speaker Slot, Request Queue and
\* the recorded stats events as they were.
C10_InactiveRequestRepliesError ==
  [][(last'.op = "request-to-speak" /\ ~isSessionActive
        /\ readyState[last'.ws] = "OPEN") =>
       /\ WroteErrorTo(sent', last'.ws)
       /\ UNCHANGED <<speaker, requestQueue>>
       /\ logged' = <<>>]_vars

(***************************************************************************)
(* C11                                                                     *)
(***************************************************************************)
\* The sockets a broadcast reaches.
OpenConns == {c \in Conns : readyState[c] = "OPEN"}

\* The message was broadcast: written once to all the open sockets, if any.
Broadcasted(log, type, payload) ==
  OpenConns # {} => \E i \in DOMAIN log : log[i] = Msg(OpenConns, type, payload)

\* The message was sent to the socket: written to it, if it is open (send writes
\* to open sockets only).
SentTo(log, ws, type, payload) ==
  readyState[ws] = "OPEN" => WroteTo(log, ws, type, payload)

\* C11: a request-to-speak from socket c while the session is active and the
\* Speaker Slot is empty makes c the speaker, leaves c out of the queue, sends c
\* system-speak-granted and broadcasts a speaker update naming c.
C11_RequestOnFreeFloorGrants ==
  [][(last'.op = "request-to-speak" /\ isSessionActive /\ speaker = Null) =>
       /\ speaker' = last'.ws
       /\ last'.ws \notin Range(requestQueue')
       /\ SentTo(sent', last'.ws, "system-speak-granted", NoUser)
       /\ Broadcasted(sent', "system-speaker-update", user[last'.ws])]_vars

\* A student has just been granted the floor by its request, and was told so.
C11_Witness ==
  /\ last.op = "request-to-speak"
  /\ speaker = last.ws
  /\ ~isLecturer(user[speaker])
  /\ hostWs # Null /\ hostWs # speaker
  /\ sent = <<Msg({speaker}, "system-speak-granted", NoUser),
              Msg(OpenConns, "system-speaker-update", user[speaker])>>

(***************************************************************************)
(* C12                                                                     *)
(***************************************************************************)
\* The payload of system-request-queue for a queue.
queueView(q) == [i \in DOMAIN q |-> user[q[i]]]

\* The speaker is unchanged; a socket that was not queued is appended at the
\* tail, acknowledged, and the host is sent the new queue; a queued one stays
\* where it is.
QueuedBehindSpeaker ==
  /\ speaker' = speaker
  /\ IF last'.ws \in Range(requestQueue)
     THEN requestQueue' = requestQueue
     ELSE /\ requestQueue' = Append(requestQueue, last'.ws)
          /\ SentTo(sent', last'.ws, "system-request-acknowledged", NoUser)
          /\ hostWs # Null
          /\ SentTo(sent', hostWs, "system-request-queue", queueView(requestQueue'))

\* C12 as stated: whenever a socket requests while another socket holds the
\* floor, it is queued behind the speaker.
C12_BusyFloorRequestAlwaysQueues ==
  [][(last'.op = "request-to-speak" /\ speaker # Null /\ speaker # last'.ws) =>
       QueuedBehindSpeaker]_vars

\* C12 (amended): whenever a socket requests while the session is active and
\* another socket holds the floor, the speaker is unchanged, the socket is
\* appended at the tail of the queue if it was not queued, it is acknowledged and
\* the host is sent the new queue; while the session is inactive the request
\* changes neither speaker nor queue and writes nothing.
C12_BusyFloorRequestQueues ==
  [][(last'.op = "request-to-speak" /\ speaker # Null /\ speaker # last'.ws) =>
       IF isSessionActive THEN QueuedBehindSpeaker
       ELSE UNCHANGED <<speaker, requestQueue>> /\ sent' = <<>>]_vars

\* A student has just been queued behind another queued socket while a third
\* socket speaks, and the lecturer's host socket got the queue.
C12_Witness ==
  /\ last.op = "request-to-speak"
  /\ Len(requestQueue) = 2
  /\ requestQueue[2] = last.ws
  /\ speaker # Null /\ speaker \notin Range(requestQueue)
  /\ hostWs # Null /\ isLecturer(user[hostWs])
  /\ WroteTo(sent, last.ws, "system-request-acknowledged", NoUser)
  /\ WroteTo(sent, hostWs, "system-request-queue", queueView(requestQueue))

(***************************************************************************)
(* C13                                                                     *)
(***************************************************************************)
\* c comes before d in the queue.
Before(q, c, d) == \E i, j \in DOMAIN q : i < j /\ q[i] = c /\ q[j] = d

\* The step may take entry c out of the queue: a cancel-request of c, an
\* admin-remove-request of the host for c's uid, the floor going to c, or the
\* 'close' event of c.
MayLeaveQueue(c) ==
  \/ last'.op = "cancel-request" /\ last'.ws = c
  \/ last'.op = "admin-remove-request" /\ last'.ws = hostWs /\ last'.arg = user[c]
  \/ speaker # c /\ speaker' = c
  \/ last'.op = "close" /\ last'.ws = c

\* C13: an entry leaves the queue only in a step that is its owner's
\* cancel-request, an admin-remove-request for its uid, a grant of the floor to it
\* or the disconnect of its socket, and two entries that stay queued keep their
\* order.
C13_QueueIsFifoAndPersistent ==
  [][/\ \A c \in Range(requestQueue) :
          c \notin Range(requestQueue') => MayLeaveQueue(c)
     /\ \A c, d \in Range(requestQueue) \cap Range(requestQueue') :
          Before(requestQueue, c, d) <=> Before(requestQueue', c, d)]_vars

\* The host has just disconnected while another socket is queued: the session
\* is inactive and the entry is still there.
C13_Witness ==
  /\ last.op = "close"
  /\ hostWs = Null
  /\ ~isSessionActive
  /\ requestQueue # <<>>
  /\ last.ws \notin Range(requestQueue)

(***************************************************************************)
(* C14                                                                     *)
(***************************************************************************)
\* The speaker is sent system-speak-granted again, nothing else is written and
\* nothing the coordinator keeps changes.
ReAcknowledged ==
  /\ SentTo(sent', last'.ws, "system-speak-granted", NoUser)
  /\ Len(sent') <= 1
  /\ UNCHANGED coordinator

\* C14 as stated: whenever the current speaker sends request-to-speak, it is
\* re-sent system-speak-granted and speaker, queue and session state are as
\* before.
C14_SpeakerRequestAlwaysReAcked ==
  [][(last'.op = "request-to-speak" /\ speaker = last'.ws) => ReAcknowledged]_vars

\* C14 (amended): whenever the current speaker sends request-to-speak while the
\* session is active, it is re-sent system-speak-granted and speaker, queue and
\* session state are as before; while the session is inactive the state is as
\* before too, but no grant is sent.
C14_SpeakerRequestReAcked ==
  [][(last'.op = "request-to-speak" /\ speaker = last'.ws) =>
       /\ UNCHANGED coordinator
       /\ IF isSessionActive THEN ReAcknowledged
          ELSE ~WroteTo(sent', last'.ws, "system-speak-granted", NoUser)]_vars

\* A speaking student has just asked again, with somebody queued behind it, and
\* got the grant again.
C14_Witness ==
  /\ last.op = "request-to-speak"
  /\ speaker = last.ws
  /\ ~isLecturer(user[speaker])
  /\ requestQueue # <<>>
  /\ sent = <<Msg({speaker}, "system-speak-granted", NoUser)>>

(***************************************************************************)
(* C15                                                                     *)
(***************************************************************************)
\* The queue after the step is the queue before it without socket c: c's one
\* entry is gone, every other entry is still there, in the same order.
RemovedExactly(c) ==
  /\ c \in Range(requestQueue)
  /\ Range(requestQueue') = Range(requestQueue) \ {c}
  /\ Len(requestQueue') = Len(requestQueue) - 1
  /\ \A d, e \in Range(requestQueue') :
       Before(requestQueue, d, e) <=> Before(requestQueue', d, e)

\* The host, if there is one, is sent the queue as it is after the step.
HostSentQueue ==
  hostWs' # Null =>
    SentTo(sent', hostWs', "system-request-queue", queueView(requestQueue'))

\* C15: a cancel-request from a queued socket removes exactly that entry, the
\* socket is sent system-request-cancelled and the host the updated queue; a
\* cancel-request from a socket that is not queued changes nothing and writes
\* nothing.
C15_CancelRemovesOwnEntryOnly ==
  [][last'.op = "cancel-request" =>
       IF last'.ws \in Range(requestQueue)
       THEN /\ RemovedExactly(last'.ws)
            /\ SentTo(sent', last'.ws, "system-request-cancelled", NoUser)
            /\ HostSentQueue
            /\ UNCHANGED <<speaker, hostWs, clients, isSessionActive>>
       ELSE UNCHANGED coordinator /\ sent' = <<>>]_vars

\* One of two queued sockets has just cancelled: the other is still queued,
\* the canceller was told and the host has the one-entry queue.
C15_Witness ==
  /\ last.op = "cancel-request"
  /\ Len(requestQueue) = 1
  /\ last.ws \notin Range(requestQueue)
  /\ hostWs # Null
  /\ sent = <<Msg({hostWs}, "system-request-queue", queueView(requestQueue)),
              Msg({last.ws}, "system-request-cancelled", NoUser)>>

(***************************************************************************)
(* C16                                                                     *)
(***************************************************************************)
\* No socket is written a system-speak-granted in this step.
NobodyGranted ==
  \A i \in DOMAIN sent' : sent'[i].type # "system-speak-granted"

\* C16: a release-floor from the current speaker empties the speaker slot and
\* broadcasts a speaker update with no speaker; the queue is as before and
\* nobody is granted the floor.  A release-floor from any other socket changes
\* nothing and writes nothing.
C16_ReleaseDoesNotAdvance ==
  [][last'.op = "release-floor" =>
       IF speaker = last'.ws
       THEN /\ speaker' = Null
            /\ Broadcasted(sent', "system-speaker-update", NoUser)
            /\ requestQueue' = requestQueue
            /\ NobodyGranted
       ELSE UNCHANGED coordinator /\ sent' = <<>>]_vars

\* The speaker has just released the floor with somebody queued behind it:
\* the slot is empty, the queue is not, and the one message written is the
\* speaker update.
C16_Witness ==
  /\ last.op = "release-floor"
  /\ speaker = Null
  /\ requestQueue # <<>>
  /\ readyState[last.ws] = "OPEN"
  /\ sent = <<Msg(OpenConns, "system-speaker-update", NoUser)>>

(***************************************************************************)
(* C17                                                                     *)
(***************************************************************************)
\* The speaker updates written in this step.
SpeakerUpdates ==
  {i \in DOMAIN sent' : sent'[i].type = "system-speaker-update"}

\* C17: when the host sends admin-grant-floor for a uid that has a live socket,
\* that socket becomes the speaker whoever held the floor, it is no longer an
\* entry of the queue, it is sent system-speak-granted, and exactly one speaker
\* update is broadcast, naming the target.
C17_AdminGrantDequeuesTarget ==
  [][(last'.op = "admin-grant-floor" /\ last'.ws = hostWs) =>
       LET target == findClientByUid(Cur, last'.arg)
       IN target # Null =>
            /\ speaker' = target
            /\ target \notin Range(requestQueue')
            /\ SentTo(sent', target, "system-speak-granted", NoUser)
            /\ Broadcasted(sent', "system-speaker-update", user[target])
            /\ Cardinality(SpeakerUpdates) = 1]_vars

\* The parts of C17 other than the removal from the queue.
GrantOverridesSpeaker ==
  [][(last'.op = "admin-grant-floor" /\ last'.ws = hostWs) =>
       LET target == findClientByUid(Cur, last'.arg)
       IN target # Null =>
            /\ speaker' = target
            /\ SentTo(sent', target, "system-speak-granted", NoUser)
            /\ Broadcasted(sent', "system-speaker-update", user[target])
            /\ Cardinality(SpeakerUpdates) = 1]_vars

(***************************************************************************)
(* C18                                                                     *)
(***************************************************************************)
\* The entries of the queue whose uid is not uid keep their places relative to
\* each other, and none of them leaves.
OthersKeepOrder(uid) ==
  LET others == {c \in Range(requestQueue) : user[c] # uid}
  IN /\ others \subseteq Range(requestQueue')
     /\ \A d, e \in others :
          Before(requestQueue, d, e) <=> Before(requestQueue', d, e)

\* C18: after the host's admin-remove-request for a uid no entry of the queue
\* has that uid, whichever socket of the uid the entry belongs to; the other
\* entries keep their order, the uid's live socket is notified and the host is
\* sent the updated queue.
C18_AdminRemoveLeavesNoEntryOfUid ==
  [][(last'.op = "admin-remove-request" /\ last'.ws = hostWs) =>
       LET uid    == last'.arg
           target == findClientByUid(Cur, uid)
       IN /\ \A c \in Range(requestQueue') : user[c] # uid
          /\ OthersKeepOrder(uid)
          /\ target # Null => SentTo(sent', target, "system-request-removed", NoUser)
          /\ HostSentQueue]_vars

\* The parts of C18 other than the removal of every entry of the uid, with the
\* removal of the live socket's entry in its place.
AdminRemoveDropsLiveEntry ==
  [][(last'.op = "admin-remove-request" /\ last'.ws = hostWs) =>
       LET uid    == last'.arg
           target == findClientByUid(Cur, uid)
       IN /\ target # Null => target \notin Range(requestQueue')
          /\ target = Null => \A c \in Range(requestQueue') : user[c] # uid
          /\ OthersKeepOrder(uid)
          /\ target # Null => SentTo(sent', target, "system-request-removed", NoUser)
          /\ HostSentQueue]_vars

(***************************************************************************)
(* C19                                                                     *)
(***************************************************************************)
\* C19: once the close event of a socket has been handled, the socket is not in
\* the Registry, is not the speaker, is not an entry of the queue and is not
\* the host; if it was queued, the other entries keep their order and the host
\* is sent the updated queue.
C19_DisconnectRemovesEverywhere ==
  [][last'.op = "close" =>
       LET c == last'.ws
       IN /\ c \notin clients'
          /\ speaker' # c
          /\ c \notin Range(requestQueue')
          /\ hostWs' # c
          /\ IF c \in Range(requestQueue)
             THEN RemovedExactly(c) /\ HostSentQueue
             ELSE requestQueue' = requestQueue]_vars

\* A queued socket has just disconnected while another is queued too: the host
\* has been sent the queue that is left.
C19_Witness ==
  /\ last.op = "close"
  /\ requestQueue # <<>>
  /\ speaker # Null
  /\ hostWs # Null
  /\ readyState[hostWs] = "OPEN"
  /\ WroteTo(sent, hostWs, "system-request-queue", queueView(requestQueue))

(***************************************************************************)
(* C20                                                                     *)
(***************************************************************************)
\* The host's admin-kick-user step for a uid with a live socket: the uid is
\* banned, the socket is written the kicked notice and closed, and it is not
\* the speaker afterwards.
KickStep ==
  (last'.op = "admin-kick-user" /\ last'.ws = hostWs) =>
    LET target == findClientByUid(Cur, last'.arg)
    IN target # Null =>
         /\ last'.arg \in bannedUids'
         /\ WroteTo(sent', target, "system-error", "kicked")
         /\ readyState'[target] = "CLOSING"
         /\ speaker' # target

\* The close event of a socket whose uid is banned: afterwards the socket is
\* neither queued, nor in the Registry, nor the speaker.
KickedCloseStep ==
  (last'.op = "close" /\ last'.arg \in bannedUids) =>
    /\ last'.ws \notin Range(requestQueue')
    /\ last'.ws \notin clients'
    /\ speaker' # last'.ws

\* C20: the host's admin-kick-user for a connected participant bans its uid,
\* sends it the kicked notice, closes its socket and takes the floor from it;
\* once the close event of the kicked socket has been handled the socket is in
\* neither the queue nor the Registry.
C20_KickBansClosesAndClears ==
  [][KickStep /\ KickedCloseStep]_vars

\* The close event of a kicked student that was queued has just been handled:
\* its uid is banned and the lecturer hosting was sent the emptied queue.
C20_Witness ==
  /\ last.op = "close"
  /\ last.arg \in bannedUids
  /\ ~isLecturer(last.arg)
  /\ hostWs # Null
  /\ isLecturer(user[hostWs])
  /\ WroteTo(sent, hostWs, "system-request-queue", queueView(requestQueue))

(***************************************************************************)
(* C21                                                                     *)
(***************************************************************************)
\* The only steps that change the Ban Set: the host's admin-kick-user adds the
\* uid it names, the host's admin-unkick-user removes the uid it names.
BanSetChangesByHostOnly ==
  bannedUids' # bannedUids =>
    /\ last'.ws = hostWs
    /\ \/ last'.op = "admin-kick-user" /\ bannedUids' = bannedUids \cup {last'.arg}
       \/ last'.op = "admin-unkick-user" /\ bannedUids' = bannedUids \ {last'.arg}

\* An admission attempt of a banned uid is rejected: the socket is not
\* registered and is not open afterwards.
BannedAdmissionRejected ==
  (last'.op = "connection" /\ last'.arg \in bannedUids) =>
    /\ last'.ws \notin clients'
    /\ readyState'[last'.ws] # "OPEN"
    /\ bannedUids' = bannedUids

\* C21: a uid enters the Ban Set only by the host's admin-kick-user and leaves
\* it only by the host's admin-unkick-user; every other step (host disconnect,
\* register-as-host, session toggle, the banned user's disconnect, ...) leaves
\* the Ban Set as it is, and every admission attempt of a banned uid is
\* rejected.
C21_BanLastsUntilUnkick ==
  [][BanSetChangesByHostOnly /\ BannedAdmissionRejected]_vars

\* A kicked student tries to come back after the host that kicked it has
\* disconnected: it is still banned and is rejected.
C21_Witness ==
  /\ last.op = "connection"
  /\ last.arg \in bannedUids
  /\ ~isLecturer(last.arg)
  /\ last.ws \notin clients
  /\ readyState[last.ws] = "FREE"
  /\ hostWs = Null
  /\ shutdownTimer

(***************************************************************************)
(* C22                                                                     *)
(***************************************************************************)
\* The step handled a signaling message that names a target uid.
TargetedSignal ==
  last'.op \in {"webrtc-answer", "webrtc-ice-candidate"} /\ last'.arg # NoUser

\* C22: a webrtc-answer, or a webrtc-ice-candidate with a targetUid, that comes
\* from a socket that is not the host is ignored: nothing is written to any
\* socket and nothing the coordinator keeps changes.
C22_TargetedFromNonHostIgnored ==
  [][(TargetedSignal /\ last'.ws # hostWs) =>
       sent' = <<>> /\ UNCHANGED coordinator]_vars

\* The same for webrtc-answer alone, targeted or not.
AnswerFromNonHostIgnored ==
  [][(last'.op = "webrtc-answer" /\ last'.ws # hostWs) =>
       sent' = <<>> /\ UNCHANGED coordinator]_vars

(***************************************************************************)
(* C23                                                                     *)
(***************************************************************************)
SignalOps == {"webrtc-offer", "webrtc-answer", "webrtc-ice-candidate"}

\* The part of the payload each signaling message forwards.
BodyOf(op) ==
  CASE op = "webrtc-offer" -> "payload"
    [] op = "webrtc-answer" -> "payload.sdp"
    [] op = "webrtc-ice-candidate" -> "payload.candidate"

\* Exactly this one message was written in the step if the recipient is a live
\* socket, and nothing at all otherwise.
DeliveredOnlyTo(c, from) ==
  IF c # Null /\ readyState[c] = "OPEN"
  THEN sent' = <<Msg({c}, last'.op, Relayed(BodyOf(last'.op), from))>>
  ELSE sent' = <<>>

\* C23: a signaling step changes nothing the coordinator keeps and writes at
\* most one message, of the relayed type, to one socket.  An offer or an
\* untargeted candidate from a participant goes to the host only, with the
\* sender's uid; an answer or a targeted candidate from the host goes only to
\* the live socket of the named uid; with no such recipient nothing is written.
C23_RelayHasOneRecipient ==
  [][last'.op \in SignalOps =>
       /\ UNCHANGED coordinator
       /\ Len(sent') <= 1
       /\ \A i \in DOMAIN sent' :
            Cardinality(sent'[i].to) = 1 /\ sent'[i].type = last'.op
       /\ (/\ last'.ws # hostWs
           /\ \/ last'.op = "webrtc-offer"
              \/ last'.op = "webrtc-ice-candidate" /\ last'.arg = NoUser)
            => DeliveredOnlyTo(hostWs, user[last'.ws])
       /\ (last'.ws = hostWs /\ TargetedSignal)
            => DeliveredOnlyTo(findClientByUid(Cur, last'.arg), NoUser)]_vars

\* The lecturer hosting has just answered a student: the answer went to the
\* student's socket and to nobody else.
C23_Witness ==
  /\ last.op = "webrtc-answer"
  /\ last.ws = hostWs
  /\ isLecturer(user[hostWs])
  /\ ~isLecturer(last.arg)
  /\ \E c \in clients \ {hostWs} :
       /\ user[c] = last.arg
       /\ sent = <<Msg({c}, "webrtc-answer", Relayed("payload.sdp", NoUser))>>

\* A student sends an offer after the host has gone: nothing is written.
C23_DroppedWitness ==
  /\ last.op = "webrtc-offer"
  /\ hostWs = Null
  /\ readyState[last.ws] = "OPEN"
  /\ sent = <<>>

(***************************************************************************)
(* C24                                                                     *)
(***************************************************************************)
\* The close event of the host's socket: the session is inactive afterwards,
\* no host is registered, the inactive status was broadcast to the sockets that
\* are open, and the timer is pending.
HostCloseStep ==
  (last'.op = "close" /\ last'.ws = hostWs) =>
    /\ ~isSessionActive'
    /\ hostWs' = Null
    /\ shutdownTimer'
    /\ OpenConns' # {} =>
         \E i \in DOMAIN sent' :
           sent'[i] = Msg(OpenConns', "system-session-status", FALSE)

\* C24: when the host's socket disconnects the session becomes inactive, the
\* inactive status is broadcast and the grace timer is armed; a pending timer
\* leads to the termination of the process unless a register-as-host is
\* handled first.
C24_HostLossArmsTimerAndTerminates ==
  /\ [][HostCloseStep]_vars
  /\ (shutdownTimer ~> (exited \/ last.op = "register-as-host"))

\* The timer has fired after the host left, with a participant still
\* connected: the process has terminated.
C24_Witness ==
  /\ exited
  /\ last.op = "timer"
  /\ hostWs = Null
  /\ ~isSessionActive
  /\ clients # {}

(***************************************************************************)
(* C25                                                                     *)
(***************************************************************************)
\* C25: at most one timer is pending at any time, and it is the one
\* this.shutdownTimer refers to; while a host is registered no timer is pending
\* and the process has not terminated.
C25_OneTimerNoneWhileHosted ==
  /\ pendingTimers <= 1
  /\ ~exited => (shutdownTimer <=> pendingTimers = 1)
  /\ hostWs # Null => (pendingTimers = 0 /\ ~shutdownTimer /\ ~exited)

\* A host has registered again after an earlier host left and armed the timer:
\* the session runs again and no timer is pending.
C25_Witness ==
  /\ last.op = "register-as-host"
  /\ last.arg = "timer"
  /\ hostWs = last.ws
  /\ isLecturer(user[hostWs])
  /\ isSessionActive
  /\ pendingTimers = 0
  /\ ~shutdownTimer

(***************************************************************************)
(* C26                                                                     *)
(***************************************************************************)
\* The new socket of a successful admission is registered and was written the
\* session-active flag and the speaker's identity (or null) as they are.
AdmissionSnapshot ==
  (last'.op = "connection" /\ last'.ws \in clients') =>
    /\ user'[last'.ws] = last'.arg
    /\ readyState'[last'.ws] = "OPEN"
    /\ WroteTo(sent', last'.ws, "system-session-status", isSessionActive')
    /\ WroteTo(sent', last'.ws, "system-speaker-update",
               IF speaker' # Null THEN user'[speaker'] ELSE NoUser)

\* Every participant list written in the step names exactly the registered
\* sockets whose identity is not privileged.
ParticipantListIsNonPrivileged ==
  \A i \in DOMAIN sent' :
    sent'[i].type = "system-participant-list" =>
      /\ sent'[i].to = {hostWs'}
      /\ sent'[i].payload = {user'[c] : c \in {d \in clients' : ~isLecturer(user'[d])}}

\* An admission with a live host writes the host a participant list.
AdmissionUpdatesHost ==
  (last'.op = "connection" /\ last'.ws \in clients'
     /\ hostWs' # Null /\ readyState'[hostWs'] = "OPEN") =>
    \E i \in DOMAIN sent' : sent'[i].type = "system-participant-list"

\* C26: on every successful admission the new socket is registered and is sent
\* the session-active flag and the speaker's identity or null; the participant
\* list the host is sent lists every registered socket that is not privileged
\* and no socket that is privileged.
C26_AdmissionSnapshotAndList ==
  [][AdmissionSnapshot /\ AdmissionUpdatesHost /\ ParticipantListIsNonPrivileged]_vars

\* The parts of C26 other than the content of the participant list.
AdmissionSnapshotSent ==
  [][AdmissionSnapshot /\ AdmissionUpdatesHost]_vars

(***************************************************************************)
(* C27                                                                     *)
(***************************************************************************)
\* C27: a message that is not valid JSON, that has an unknown type, that is a
\* JSON value other than an object, or that has a known type but no payload, is
\* ignored: the handler raises no exception, nothing the coordinator keeps
\* changes and the sender's socket stays open.
C27_MalformedIsIgnored ==
  [][last'.op \in {"bad-envelope", "no-payload"} =>
       /\ ~threw'
       /\ UNCHANGED coordinator
       /\ readyState'[last'.ws] = readyState[last'.ws]]_vars

\* The kinds C27 is right about: text that is not JSON, an unknown type, and a
\* number, string, boolean or array.
OtherBadEnvelopesIgnored ==
  [][(last'.op = "bad-envelope" /\ last'.arg # "json-null") =>
       ~threw' /\ UNCHANGED coordinator /\ sent' = <<>>]_vars

(***************************************************************************)
(* C28                                                                     *)
(***************************************************************************)
\* C28: the host's admin-kick-user or admin-grant-floor for a uid that has no
\* live socket changes nothing the coordinator keeps (Ban Set, Speaker Slot,
\* Request Queue and Registry among it), writes no system-error to anybody,
\* raises no exception and does not end the process.
C28_AbsentTargetIsDropped ==
  [][(/\ last'.op \in {"admin-kick-user", "admin-grant-floor"}
      /\ last'.ws = hostWs
      /\ findClientByUid(Cur, last'.arg) = Null) =>
       /\ UNCHANGED coordinator
       /\ \A i \in DOMAIN sent' : sent'[i].type # "system-error"
       /\ ~threw'
       /\ ~exited']_vars

\* The lecturer hosting has just tried to kick a student that is not
\* connected, while another socket speaks: nobody is banned and the host was
\* written the unchanged, empty ban list.
C28_Witness ==
  /\ last.op = "admin-kick-user"
  /\ last.ws = hostWs
  /\ isLecturer(user[hostWs])
  /\ ~isLecturer(last.arg)
  /\ findClientByUid(Cur, last.arg) = Null
  /\ bannedUids = {}
  /\ speaker # Null
  /\ sent = <<Msg({hostWs}, "system-banned-list", {})>>

(***************************************************************************)
(* C29                                                                     *)
(***************************************************************************)
\* The step takes the floor from the speaker: the speaker's release-floor, the
\* host's admin-release-floor while somebody speaks, or the speaker's close
\* event.
FloorGivenUp ==
  /\ speaker # Null
  /\ \/ last'.op = "release-floor" /\ last'.ws = speaker
     \/ last'.op = "admin-release-floor" /\ last'.ws = hostWs
     \/ last'.op = "close" /\ last'.ws = speaker

\* C29: after a release-floor by the speaker, an admin-release-floor by the
\* host and a disconnect of the speaker, the speaker slot is null and the step
\* has set the cooldown entry of the prior speaker's uid, and of nobody else;
\* an admin-release-floor with an empty slot sets no entry.
C29_ReleaseStampsCooldown ==
  [][/\ FloorGivenUp =>
          speaker' = Null /\ lastSpeakTimeMap' = {user[speaker]}
     /\ (last'.op = "admin-release-floor" /\ last'.ws = hostWs /\ speaker = Null) =>
          speaker' = Null /\ lastSpeakTimeMap' = {}]_vars

\* The lecturer hosting has just taken the floor from a student: the slot is
\* empty and the student's cooldown entry was set.
C29_Witness ==
  /\ last.op = "admin-release-floor"
  /\ last.ws = hostWs
  /\ isLecturer(user[hostWs])
  /\ speaker = Null
  /\ \E u \in Students : lastSpeakTimeMap = {u}

(***************************************************************************)
(* C30                                                                     *)
(***************************************************************************)
\* The payloads of the speaker updates of a log, in order.
RECURSIVE speakerUpdatesOf(_)
speakerUpdatesOf(log) ==
  IF log = <<>> THEN <<>>
  ELSE IF Head(log).type = "system-speaker-update"
       THEN <<Head(log).payload>> \o speakerUpdatesOf(Tail(log))
       ELSE speakerUpdatesOf(Tail(log))

\* The FLOOR_RELEASED records of a log of statsService calls.
floorReleasedOf(log) ==
  {i \in DOMAIN log : log[i][1] = "FLOOR_RELEASED"}

\* The close event of the speaker leaves the floor as release-floor by the
\* speaker would: the slot, the cooldown entry, the queue and the speaker
\* update that is broadcast.
FloorAsAfterRelease(r) ==
  /\ speaker' = r.speaker
  /\ lastSpeakTimeMap' = r.lastSpeakTimeMap
  /\ filter(requestQueue', Conns \ {last'.ws}) = filter(r.requestQueue, Conns \ {last'.ws})
  /\ speakerUpdatesOf(sent') = speakerUpdatesOf(r.sent)

\* C30: the close event of the current speaker has the effect on the floor
\* that a release-floor by that speaker has: the same speaker slot, the same
\* cooldown entry, the same queue, the same speaker update and the same
\* FLOOR_RELEASED record in the statistics.
C30_SpeakerCloseIsRelease ==
  [][(last'.op = "close" /\ last'.ws = speaker) =>
       LET r == handleReleaseFloor([Cur EXCEPT !.readyState[speaker] = "CLOSING"], speaker)
       IN /\ FloorAsAfterRelease(r)
          /\ requestQueue' = r.requestQueue
          /\ Cardinality(floorReleasedOf(logged')) = Cardinality(floorReleasedOf(r.logged))]_vars

\* The parts of C30 other than the statistics record, the speaker's own queue
\* entry aside.
SpeakerCloseReleasesFloor ==
  [][(last'.op = "close" /\ last'.ws = speaker) =>
       FloorAsAfterRelease(
         handleReleaseFloor([Cur EXCEPT !.readyState[speaker] = "CLOSING"], speaker))]_vars

(***************************************************************************)
(* C31                                                                     *)
(***************************************************************************)
\* The step admits a new socket for the uid of the socket registered as host.
HostReconnects ==
  /\ last'.op = "connection"
  /\ last'.ws \in clients'
  /\ hostWs # Null
  /\ user[hostWs] = last'.arg

\* C31: when a new socket is admitted for the uid of the registered host, the
\* admission writes the new socket the request queue as it is.
C31_ReconnectingHostGetsQueue ==
  [][HostReconnects =>
       WroteTo(sent', last'.ws, "system-request-queue",
               [i \in DOMAIN requestQueue' |-> user'[requestQueue'[i]]])]_vars

\* What the admission of a reconnecting host does instead: the new socket is
\* not the host and no request queue is written to anybody.
ReconnectingHostGetsNoQueue ==
  [][HostReconnects =>
       /\ hostWs' # last'.ws
       /\ \A i \in DOMAIN sent' : sent'[i].type # "system-request-queue"]_vars

(***************************************************************************)
(* C32                                                                     *)
(***************************************************************************)
\* The identities of the Registry that are not privileged.
connectedStudents == {user[c] : c \in {d \in clients : ~isLecturer(user[d])}}

\* C32: a statistics session is current exactly while a host is registered;
\* while it is, every identity of the Registry that is not privileged is a
\* user of the session's record, and no privileged identity ever is.
C32_NoJoinUndercounted ==
  /\ statsCurrent <=> hostWs # Null
  /\ statsCurrent => connectedStudents \subseteq statsRec.users
  /\ \A u \in statsRec.users : ~isLecturer(u)

\* The same with the registered host left out of the identities that must be
\* recorded.
JoinsOfNonHostsCounted ==
  /\ statsCurrent <=> hostWs # Null
  /\ statsCurrent =>
       {user[c] : c \in {d \in clients \ {hostWs} : ~isLecturer(user[d])}}
         \subseteq statsRec.users
  /\ \A u \in statsRec.users : ~isLecturer(u)

(***************************************************************************)
(* C33                                                                     *)
(***************************************************************************)
\* No invocation that holds the key is suspended.
Settled(pcId) == \A h \in handlers : h.pcId # pcId

\* The peer connection stored under the key has its remote description.
RemoteSet(pcId) == peers[pcId] # NoPc /\ pcs[peers[pcId]].remoteDescription

\* C33: a candidate that was buffered because the remote description was not
\* yet set is added to the peer connection once the remote description is set:
\* when the connection of its key has the remote description and no handler
\* of that key is still running, the candidate has been added to a peer
\* connection and is no longer in the buffer.
C33_BufferedCandidatesAdded ==
  \A a \in arrived :
    (a.fate = "queued" /\ RemoteSet(a.pcId) /\ Settled(a.pcId))
      => /\ \E n \in 1..MaxPc : a.cand \in pcs[n].added
         /\ a.cand \notin Range(iceQueues[a.pcId])

\* The same in host mode only, where the offer branch empties the buffer.
HostBufferedCandidatesAdded ==
  \A a \in arrived :
    (a.fate = "queued" /\ a.pcId \in FromUids /\ RemoteSet(a.pcId) /\ Settled(a.pcId))
      => /\ \E n \in 1..MaxPc : a.cand \in pcs[n].added
         /\ a.cand \notin Range(iceQueues[a.pcId])

\* No candidate is discarded on arrival.
NoCandidateDropped == \A a \in arrived : a.fate # "dropped"

(***************************************************************************)
(* C34                                                                     *)
(***************************************************************************)
\* The step is the 'close' event of the registered host's socket.
HostCloses == last'.op = "close" /\ hostWs # Null /\ last'.ws = hostWs

\* C34: after every step an active session has a registered host; the active
\* flag goes from false to true only in a register-as-host step or in an
\* admin-toggle-session step of the current host; the close of the host's
\* socket clears the flag and the host in one step; and no step writes the
\* 'Lecturer disconnected.' error.
C34_ActiveSessionHasHost ==
  [][/\ isSessionActive' => hostWs' # Null
     /\ (isSessionActive' /\ ~isSessionActive)
          => \/ last'.op = "register-as-host"
             \/ last'.op = "admin-toggle-session" /\ last'.ws = hostWs
     /\ HostCloses => ~isSessionActive' /\ hostWs' = Null
     /\ \A i \in DOMAIN sent' :
          ~(sent'[i].type = "system-error" /\ sent'[i].payload = "lecturer-disconnected")]_vars

\* The host's socket closed while another client was connected, which was told
\* that the session is no longer active.
C34_HostClosedSession ==
  /\ last.op = "close" /\ hostWs = Null /\ shutdownTimer /\ ~isSessionActive
  /\ \E i \in DOMAIN sent : sent[i].type = "system-session-status" /\ sent[i].payload = FALSE

(***************************************************************************)
(* C35                                                                     *)
(***************************************************************************)
\* The step is an admin-kick-user of the host that names the host's own uid.
HostKicksItself ==
  /\ last'.op = "admin-kick-user" /\ hostWs # Null /\ last'.ws = hostWs
  /\ last'.arg = user[hostWs]

\* C35: an admin-kick-user of the host that names the host's own uid adds
\* nothing to the Ban Set and does not close the host's connection, and after
\* every step the uid of the registered host is not in the Ban Set.
C35_HostNeverBansItself ==
  [][/\ HostKicksItself => bannedUids' = bannedUids /\ readyState'[hostWs] = readyState[hostWs]
     /\ hostWs' # Null => user'[hostWs'] \notin bannedUids']_vars

\* Kicks of other uids leave the host out of the Ban Set and its socket open.
KickOfOtherSparesHost ==
  [][(last'.op = "admin-kick-user" /\ hostWs # Null /\ last'.ws = hostWs
        /\ last'.arg # user[hostWs] /\ readyState[hostWs] = "OPEN")
       => /\ user[hostWs] \in bannedUids' <=> user[hostWs] \in bannedUids
          /\ readyState'[hostWs] = "OPEN"]_vars

(***************************************************************************)
(* C36                                                                     *)
(***************************************************************************)
SpeakingNotes == {"finished-speaking", "speaking-started"}

\* C36: a finished-speaking or speaking-started step, from any socket, leaves
\* the Speaker Slot, the Request Queue, the cooldown map, the session state
\* and everything else the coordinator keeps as they were and writes to no
\* socket.
C36_SpeakingNotesChangeNothing ==
  [][last'.op \in SpeakingNotes
       => /\ UNCHANGED coordinator
          /\ lastSpeakTimeMap' = {}
          /\ sent' = <<>>]_vars

\* The speaker said it had finished speaking, with a request waiting, and
\* still holds the floor.
C36_SpeakerFinishedAndKeepsFloor ==
  /\ last.op = "finished-speaking" /\ speaker = last.ws
  /\ requestQueue # <<>>
  /\ logged # <<>>

(***************************************************************************)
(* C37                                                                     *)
(***************************************************************************)
\* The step is an admin-toggle-session of the registered host.
HostToggles == last'.op = "admin-toggle-session" /\ hostWs # Null /\ last'.ws = hostWs

\* C37, as stated: the close of the host's socket and the host's
\* admin-toggle-session leave the Speaker Slot and the Request Queue exactly
\* as they were.
C37_InactivationLeavesFloor ==
  [][(HostCloses \/ HostToggles) => UNCHANGED <<speaker, requestQueue>>]_vars

\* C37, amended: they leave the Speaker Slot and the Request Queue as they
\* were, except that the close of the host's socket takes that socket, and no
\* other, out of the Speaker Slot and of the queue.
C37_InactivationLeavesOthersFloor ==
  [][/\ HostToggles => UNCHANGED <<speaker, requestQueue>>
     /\ HostCloses
          => /\ speaker' = IF speaker = hostWs THEN Null ELSE speaker
             /\ requestQueue' = filter(requestQueue, Conns \ {hostWs})]_vars

\* The host's socket closed and a participant still holds the floor of the
\* inactive session.
C37_FloorHeldWithoutHost ==
  /\ last.op = "close" /\ hostWs = Null /\ shutdownTimer /\ ~isSessionActive
  /\ speaker # Null

(***************************************************************************)
(* C38                                                                     *)
(***************************************************************************)
\* The step ends with the Speaker Slot no longer holding the uid it held.
SpeakerLeaves ==
  /\ speaker # Null
  /\ speaker' = Null \/ user'[speaker'] # user[speaker]

\* C38: every step after which the Speaker Slot no longer holds the uid it
\* held sets the cooldown timestamp of that uid.
C38_EveryFloorLossStampsCooldown ==
  [][SpeakerLeaves => user[speaker] \in lastSpeakTimeMap']_vars

\* The same for the steps other than admin-kick-user and admin-grant-floor.
FloorLossElsewhereStampsCooldown ==
  [][(SpeakerLeaves /\ last'.op \notin {"admin-kick-user", "admin-grant-floor"})
       => user[speaker] \in lastSpeakTimeMap']_vars

\* The two cases apart, with a host that names another connection's uid.
KickOfSpeakerStampsCooldown ==
  [][(SpeakerLeaves /\ last'.op = "admin-kick-user" /\ speaker # hostWs)
       => user[speaker] \in lastSpeakTimeMap']_vars

GrantOverrideStampsCooldown ==
  [][(SpeakerLeaves /\ last'.op = "admin-grant-floor" /\ speaker # hostWs)
       => user[speaker] \in lastSpeakTimeMap']_vars

(***************************************************************************)
(* C39                                                                     *)
(***************************************************************************)
\* The step is a register-as-host of the socket whose register-as-host was the
\* step before.
RegistersAgain ==
  /\ last.op = "register-as-host" /\ last.ws = hostWs
  /\ last'.op = "register-as-host" /\ last'.ws = last.ws

\* C39: a second register-as-host from the same connection right after the
\* first leaves the host, the active flag, the timer, the Speaker Slot, the
\* Request Queue, the Ban Set and the current statistics session as they were
\* after the first, and starts no new statistics session.
C39_SecondRegistrationChangesNothing ==
  [][RegistersAgain
       => /\ UNCHANGED <<hostWs, isSessionActive, shutdownTimer, pendingTimers, speaker,
                         requestQueue, bannedUids, statsCurrent, statsRec>>
          /\ \A i \in DOMAIN logged' : logged'[i][1] # "START"]_vars

\* The socket that already was the host has registered again, with a student
\* counted in the statistics session: no timer was pending, no other socket has
\* the host's uid, and the statistics session was resumed.
C39_HostRegisteredAgain ==
  /\ last.op = "register-as-host" /\ last.ws = hostWs /\ last.arg = NoUser
  /\ \A c \in Conns \ {hostWs} : user[c] # user[hostWs]
  /\ \E i \in DOMAIN logged : logged[i][1] = "RESUME"
  /\ statsRec.users # {}

(***************************************************************************)
(* C40                                                                     *)
(***************************************************************************)
\* The uid the Speaker Slot holds after the step.
speakerInfoAfter == IF speaker' # Null THEN user'[speaker'] ELSE NoUser

\* The positions of the speaker updates among the messages of a step.
updatesIn(log) == {i \in DOMAIN log : log[i].type = "system-speaker-update"}

\* C40: a step that changes the Speaker Slot writes a system-speaker-update
\* with the new value to every socket that is open after the step; the last
\* speaker update of any step carries the value the slot has after the step;
\* and system-speak-granted is written only to the socket that is the speaker
\* after the step.
C40_NoStaleSpeaker ==
  [][/\ (speaker' # speaker /\ OpenConns' # {})
          => \E i \in updatesIn(sent') :
               sent'[i].payload = speakerInfoAfter /\ OpenConns' \subseteq sent'[i].to
     /\ \A i \in updatesIn(sent') :
          (\A j \in updatesIn(sent') : j <= i) => sent'[i].payload = speakerInfoAfter
     /\ \A i \in DOMAIN sent' :
          sent'[i].type = "system-speak-granted" => sent'[i].to = {speaker'}]_vars

\* The host gave the floor to another connection, which was told so, and every
\* open socket was told the new speaker.
C40_GrantAnnounced ==
  /\ last.op = "admin-grant-floor" /\ speaker # Null /\ speaker # hostWs
  /\ WroteTo(sent, speaker, "system-speak-granted", NoUser)
  /\ \E i \in updatesIn(sent) : sent[i].payload = user[speaker] /\ sent[i].to = OpenConns
====
